---- MODULE Spec2Model ----
(***************************************************************************)
(* variant-ui: the metadata store (DirectoryManager), the port allocator   *)
(* with reservations, and the dev-server orchestrator (DevServerManager /  *)
(* DevServer), modelled as state machines.                                 *)
(*                                                                         *)
(* Strings that the code converts (variant ids) are sequences of           *)
(* characters; a character is a number, 0..9 being the decimal digits.     *)
(* Timestamps (createdAt, lastAccessedAt, ...) and the informational       *)
(* fields of a record are left out: no operation reads them.               *)
(***************************************************************************)
EXTENDS Integers, Sequences, FiniteSets

\* ------------------------------------------------------------------ bounds

\* Number of metadata calls (addVariant, updateVariant, removeVariant,
\* allocateVariantId) that one behaviour issues.
MaxCalls == 3

\* ------------------------------------------------------- metadata: state

VARIABLES
    file,         \* metadata.json of the project: [exists, complete, variants]
    tmp,          \* tmp[c]: the temporary file of call c's atomicWrite
    variantDirs,  \* ids whose variant directory exists under the project dir
    activeLocks,  \* activeLocks[i]: the lock promise in instance i's map (0: none)
    pc,           \* pc[c]: where call c stands
    op,           \* op[c]: the operation and arguments of call c
    md,           \* md[c]: the metadata object call c holds in memory
    awaited,      \* awaited[c]: the lock promise call c awaits (0: none)
    waitq,        \* calls suspended in `await existingLock`, in arrival order
    ret,          \* ret[c]: the id allocateVariantId returned to call c
    returned,     \* ids returned by allocateVariantId, in order of return
    file0,        \* the metadata file as it was before the first call
    overlapped,   \* TRUE once a call was issued while another was in flight
    burst         \* TRUE while every call was issued before any I/O completed

metaVars == <<file, tmp, variantDirs, activeLocks, pc, op, md, awaited, waitq,
              ret, returned, file0, overlapped, burst>>

Calls == 1 .. MaxCalls

\* Two independently running processes, each with its own DirectoryManager.
Instances == {"A", "B"}

\* The instances are alike: the first call is taken to be made on this one.
FirstInstance == "A"

NoLock == 0

\* ---------------------------------------------------- metadata: id strings

Digits == 0 .. 9

RECURSIVE StringOf(_)
\* String(n) for n >= 0: the decimal digits of n.
StringOf(n) == IF n < 10 THEN <<n>> ELSE StringOf(n \div 10) \o <<n % 10>>

RECURSIVE PadStart(_, _)
\* s.padStart(len, '0'): zeros in front while s is shorter than len.
PadStart(s, len) == IF Len(s) >= len THEN s ELSE PadStart(<<0>> \o s, len)

RECURSIVE ParseInt(_)
\* parseInt(s, 10) of a string of decimal digits.
ParseInt(s) ==
    IF s = <<>> THEN 0
    ELSE ParseInt(SubSeq(s, 1, Len(s) - 1)) * 10 + s[Len(s)]

\* /^\d{3}$/.test(id)
IsThreeDigits(id) == Len(id) = 3 /\ \A k \in 1 .. 3 : id[k] \in Digits

RECURSIVE MaxOf(_)
\* Math.max(0, ...xs) of a sequence xs.
MaxOf(xs) ==
    IF xs = <<>> THEN 0
    ELSE LET m == MaxOf(Tail(xs)) IN IF Head(xs) > m THEN Head(xs) ELSE m

\* The ids the callers pass to addVariant, updateVariant and removeVariant.
InputIds == {PadStart(StringOf(1), 3), PadStart(StringOf(2), 3)}

\* ------------------------------------------------- metadata: the record

\* One createWorktree call of the process of FirstInstance: where it is, the
\* DirectoryManager call it awaits, its description argument, the id it was
\* given, its branch name, the error it raises with, and whether git created
\* its worktree directory.
VARIABLES wt

\* `ui-var/${variantId}${slug ? `-${slug}` : ''}`
BranchName(id, slug) ==
    [prefix |-> "ui-var/", id |-> id,
     sep |-> IF slug = <<>> THEN "" ELSE "-", slug |-> slug]

\* A record without a branch field.
NoBranch == [prefix |-> "", id |-> <<>>, sep |-> "", slug |-> <<>>]

Variant(id, status, port) ==
    [id |-> id, status |-> status, port |-> port, error |-> "none",
     branch |-> NoBranch, lastUpdatedAt |-> "created"]

\* No metadata.json.
NoFile == [exists |-> FALSE, complete |-> FALSE, variants |-> <<>>]

\* A completely written metadata.json holding `variants`.
FileOf(variants) == [exists |-> TRUE, complete |-> TRUE, variants |-> variants]

\* A file whose content is a truncated serialisation of `variants`.
PartialOf(variants) == [exists |-> TRUE, complete |-> FALSE, variants |-> variants]

\* readMetadata's result: null, or the parsed object.
NullMd == [present |-> FALSE, variants |-> <<>>]
MdOf(variants) == [present |-> TRUE, variants |-> variants]

\* The updaters the callers pass to updateVariant: one that sets the port.
Updaters == {"setPort"}

\* An updater that returns the record as it was.
RecordAsItWas(u, v) == v

\* The updaters createWorktree passes: the record's details with status
\* 'created', and status 'failed' with the error's message.
WorktreeUpdater(u, v) ==
    CASE u = "created" -> [v EXCEPT !.status = "created", !.branch = wt.branch,
                                    !.lastUpdatedAt = "now"]
      [] u = "failed" -> [v EXCEPT !.status = "failed", !.error = "message",
                                   !.lastUpdatedAt = "now"]
      [] OTHER -> v

\* The updater applyPatchToWorktree passes: the time of the update.
PatchUpdater(v) == [v EXCEPT !.lastUpdatedAt = "now"]

ApplyUpdater(u, v) ==
    IF u = "setPort" THEN [v EXCEPT !.port = 1]
    ELSE IF u = "touch" THEN PatchUpdater(v)
    ELSE WorktreeUpdater(u, v)

\* metadata.variants.findIndex((v) => v.id === variantId); 0 stands for -1.
FindIndex(variants, id) ==
    IF \E k \in 1 .. Len(variants) : variants[k].id = id
    THEN CHOOSE k \in 1 .. Len(variants) :
            /\ variants[k].id = id
            /\ \A j \in 1 .. k - 1 : variants[j].id # id
    ELSE 0

\* A filter that keeps every entry.
KeepAll(variants, id) == variants

\* metadata.variants.filter((v) => v.id !== variantId)
FilterOut(variants, id) == SelectSeq(variants, LAMBDA v : v.id # id)

\* The existing numeric ids, as allocateVariantId collects them.
ExistingIds(variants) ==
    LET ids == [k \in 1 .. Len(variants) |-> variants[k].id]
        ok  == SelectSeq(ids, IsThreeDigits)
    IN  [k \in 1 .. Len(ok) |-> ParseInt(ok[k])]

\* String(maxId + 1).padStart(3, '0')
NewId(variants) == PadStart(StringOf(MaxOf(ExistingIds(variants)) + 1), 3)

\* ------------------------------------------------ metadata: the operations

OpNames == {"addVariant", "updateVariant", "removeVariant", "allocateVariantId"}

\* The calls a caller can make: the operation, the instance it is made on,
\* and its arguments (id and updater where the operation takes them).
Ops ==
    {[name |-> "allocateVariantId", inst |-> i, id |-> <<>>, upd |-> "none"] :
        i \in Instances}
    \cup {[name |-> n, inst |-> i, id |-> id, upd |-> "none"] :
        n \in {"addVariant", "removeVariant"}, i \in Instances, id \in InputIds}
    \cup {[name |-> "updateVariant", inst |-> i, id |-> id, upd |-> u] :
        i \in Instances, id \in InputIds, u \in Updaters}

NoOp == [name |-> "none", inst |-> "A", id |-> <<>>, upd |-> "none"]

\* Call c is between its invocation and its completion.
InFlight(c) == pc[c] \notin {"idle", "done", "failed", "crashed"}

\* Call c is inside fn, the read-modify-write section withLock guards.
InSection(c) == InFlight(c) /\ pc[c] # "waiting"

\* The operation raises instead of writing: updateVariant on an id that
\* findIndex does not find.
Throws(o, variants) == o.name = "updateVariant" /\ FindIndex(variants, o.id) = 0

\* The in-memory modification an operation makes between its read and its
\* write.
Modified(o, variants) ==
    CASE o.name = "addVariant" ->
            Append(variants, Variant(o.id, "created", 0))
      [] o.name = "updateVariant" ->
            LET k == FindIndex(variants, o.id) IN
            [variants EXCEPT ![k] = ApplyUpdater(o.upd, variants[k])]
      [] o.name = "removeVariant" ->
            FilterOut(variants, o.id)
      [] OTHER ->
            Append(variants, Variant(NewId(variants), "allocating", 0))

\* writeFile(path, content) has started: the file written is there, truncated.
\* <<metadata file, temporary file>> after the step.
WriteFileStartInPlace(f, t, content) == <<PartialOf(content), PartialOf(content)>>

WriteFileStart(f, t, content) == <<f, PartialOf(content)>>

\* writeFile has completed: the temporary file holds the whole content.
WriteFileEnd(t) == [t EXCEPT !.complete = TRUE]

\* rename(tempPath, filePath): the target becomes the temporary file, whole.
RenameOver(f, t) == t

\* The calls that `await existingLock` on the promise of call c, in order.
Woken(c) == SelectSeq(waitq, LAMBDA w : awaited[w] = c)

\* A finally that leaves the map entry and the promise as they are.
KeepLock(c, outcome) ==
    /\ pc' = [pc EXCEPT ![c] = outcome]
    /\ UNCHANGED <<activeLocks, awaited, waitq>>

\* withLock's finally: delete the map entry, resolve the promise; then every
\* call awaiting that promise resumes, in arrival order, before any other
\* event of the process: each sets its own promise in the map and starts fn,
\* which runs up to its first readFile.
Release(c, outcome) ==
    LET w == Woken(c) IN
    /\ pc' = [d \in Calls |->
                IF d = c THEN outcome
                ELSE IF \E k \in 1 .. Len(w) : w[k] = d THEN "read"
                ELSE pc[d]]
    /\ activeLocks' = [activeLocks EXCEPT ![op[c].inst] =
                IF w = <<>> THEN NoLock ELSE w[Len(w)]]
    /\ awaited' = [d \in Calls |-> IF awaited[d] = c THEN NoLock ELSE awaited[d]]
    /\ waitq' = SelectSeq(waitq, LAMBDA d : awaited[d] # c)

\* A caller invokes operation o as call c. withLock runs synchronously to its
\* first await: the wait for an existing lock, or else the readFile of fn.
Invoke(c, o) ==
    /\ pc[c] = "idle"
    /\ IF c = 1 THEN o.inst = FirstInstance ELSE pc[c - 1] # "idle"
    /\ op' = [op EXCEPT ![c] = o]
    /\ IF activeLocks[o.inst] # NoLock
       THEN /\ pc' = [pc EXCEPT ![c] = "waiting"]
            /\ awaited' = [awaited EXCEPT ![c] = activeLocks[o.inst]]
            /\ waitq' = Append(waitq, c)
            /\ UNCHANGED activeLocks
       ELSE /\ pc' = [pc EXCEPT ![c] = "read"]
            /\ activeLocks' = [activeLocks EXCEPT ![o.inst] = c]
            /\ UNCHANGED <<awaited, waitq>>
    /\ overlapped' = (overlapped \/ \E d \in Calls : InFlight(d))
    /\ burst' = (burst /\ \A d \in Calls : pc[d] \in {"idle", "waiting", "read"})
    /\ UNCHANGED <<file, tmp, variantDirs, md, ret, returned, file0>>

\* After a successful read (or initialize) the operation modifies the object
\* and enters writeMetadata, or raises.
AfterRead(c, variants) ==
    IF Throws(op[c], variants)
    THEN /\ Release(c, "failed")
         /\ UNCHANGED md
    ELSE /\ md' = [md EXCEPT ![c] = MdOf(Modified(op[c], variants))]
         /\ pc' = [pc EXCEPT ![c] = "write"]
         /\ UNCHANGED <<activeLocks, awaited, waitq>>

\* readMetadata in fn completes.
Read(c) ==
    /\ pc[c] = "read"
    /\ IF ~file.exists
       THEN CASE op[c].name \in {"addVariant", "allocateVariantId"} ->
                    /\ pc' = [pc EXCEPT ![c] = "initRead"]
                    /\ UNCHANGED <<md, activeLocks, awaited, waitq>>
              [] op[c].name = "updateVariant" ->
                    /\ Release(c, "failed")
                    /\ UNCHANGED md
              [] OTHER ->
                    /\ Release(c, "done")
                    /\ UNCHANGED md
       ELSE IF ~file.complete
       THEN /\ Release(c, "failed")
            /\ UNCHANGED md
       ELSE AfterRead(c, file.variants)
    /\ UNCHANGED <<file, tmp, variantDirs, op, ret, returned, file0, overlapped, burst>>

\* initializeMetadata: its own readMetadata completes.
InitRead(c) ==
    /\ pc[c] = "initRead"
    /\ IF ~file.exists
       THEN /\ md' = [md EXCEPT ![c] = MdOf(<<>>)]
            /\ pc' = [pc EXCEPT ![c] = "initWrite"]
            /\ UNCHANGED <<activeLocks, awaited, waitq>>
       ELSE IF ~file.complete
       THEN /\ Release(c, "failed")
            /\ UNCHANGED md
       ELSE AfterRead(c, file.variants)
    /\ UNCHANGED <<file, tmp, variantDirs, op, ret, returned, file0, overlapped, burst>>

\* writeMetadata: the directory is there and atomicWrite's
\* writeFile(tempPath, content) starts.
WriteBegin(c, from, to) ==
    /\ pc[c] = from
    /\ LET r == WriteFileStart(file, tmp[c], md[c].variants) IN
         /\ file' = r[1]
         /\ tmp' = [tmp EXCEPT ![c] = r[2]]
    /\ pc' = [pc EXCEPT ![c] = to]
    /\ UNCHANGED <<variantDirs, activeLocks, op, md, awaited, waitq, ret, returned,
                   file0, overlapped, burst>>

\* initializeMetadata: writeFile has completed and rename(tempPath, filePath)
\* replaces the metadata file; the caller then modifies the new object and
\* enters its own writeMetadata.
InitRename(c) ==
    /\ pc[c] = "initRename"
    /\ file' = RenameOver(file, WriteFileEnd(tmp[c]))
    /\ tmp' = [tmp EXCEPT ![c] = NoFile]
    /\ AfterRead(c, md[c].variants)
    /\ UNCHANGED <<variantDirs, op, ret, returned, file0, overlapped, burst>>

\* The writeFile of an operation's writeMetadata has completed and
\* rename(tempPath, filePath) replaces the metadata file. addVariant,
\* updateVariant and allocateVariantId then return; removeVariant goes on to
\* delete the variant directory.
Rename(c) ==
    /\ pc[c] = "rename"
    /\ file' = RenameOver(file, WriteFileEnd(tmp[c]))
    /\ tmp' = [tmp EXCEPT ![c] = NoFile]
    /\ IF op[c].name = "removeVariant"
       THEN /\ pc' = [pc EXCEPT ![c] = "rmdir"]
            /\ UNCHANGED <<activeLocks, awaited, waitq, ret, returned>>
       ELSE /\ Release(c, "done")
            /\ IF op[c].name = "allocateVariantId"
               THEN LET newId == md[c].variants[Len(md[c].variants)].id IN
                    /\ ret' = [ret EXCEPT ![c] = newId]
                    /\ returned' = Append(returned, newId)
               ELSE UNCHANGED <<ret, returned>>
    /\ UNCHANGED <<variantDirs, op, md, file0, overlapped, burst>>

\* removeVariant: rm(variantDir, {recursive, force}) completes.
Rmdir(c) ==
    /\ pc[c] = "rmdir"
    /\ variantDirs' = variantDirs \ {op[c].id}
    /\ Release(c, "done")
    /\ UNCHANGED <<file, tmp, op, md, ret, returned, file0, overlapped, burst>>

\* The process of instance i dies while calls are in flight; its temporary
\* files stay behind. A process started afterwards has an empty lock map.
Crash(i) ==
    /\ \E c \in Calls : InFlight(c) /\ op[c].inst = i
    /\ pc' = [c \in Calls |->
                IF InFlight(c) /\ op[c].inst = i THEN "crashed" ELSE pc[c]]
    /\ activeLocks' = [activeLocks EXCEPT ![i] = NoLock]
    /\ awaited' = [c \in Calls |-> IF op[c].inst = i THEN NoLock ELSE awaited[c]]
    /\ waitq' = SelectSeq(waitq, LAMBDA c : op[c].inst # i)
    /\ UNCHANGED <<file, tmp, variantDirs, op, md, ret, returned, file0,
                   overlapped, burst>>

\* The file-system operation call c awaits never completes (a stalled disk
\* or network mount): fn stays pending and its lock promise unresolved.
Hang(c) ==
    /\ pc[c] \in {"read", "initRead", "initWrite", "initRename", "write",
                  "rename", "rmdir"}
    /\ pc' = [pc EXCEPT ![c] = "hung"]
    /\ UNCHANGED <<file, tmp, variantDirs, activeLocks, op, md, awaited, waitq,
                   ret, returned, file0, overlapped, burst>>

\* The records a project can hold before the first call.
InitialVariants == {<<>>, <<Variant(PadStart(StringOf(1), 3), "created", 0)>>}

MetaInit ==
    /\ file \in {NoFile} \cup {FileOf(vs) : vs \in InitialVariants}
    /\ file0 = file
    /\ tmp = [c \in Calls |-> NoFile]
    /\ variantDirs = {file.variants[k].id : k \in 1 .. Len(file.variants)}
    /\ activeLocks = [i \in Instances |-> NoLock]
    /\ pc = [c \in Calls |-> "idle"]
    /\ op = [c \in Calls |-> NoOp]
    /\ md = [c \in Calls |-> NullMd]
    /\ awaited = [c \in Calls |-> NoLock]
    /\ waitq = <<>>
    /\ ret = [c \in Calls |-> <<>>]
    /\ returned = <<>>
    /\ overlapped = FALSE
    /\ burst = TRUE

\* =========================================================================
\* Port allocator with reservations
\* =========================================================================

\* Size of a project's port block. The code's RANGE_SIZE is 1000; the model
\* keeps the block small so that a whole block can be taken.
RANGE_SIZE == 3

\* Number of allocatePortWithReservation calls one behaviour makes.
MaxReservations == 2

\* Number of ports other programs listen on at one time.
MaxExternal == 1

GLOBAL_BASE == 42000

VARIABLES
    listening,    \* ports on which a placeholder listener of a reservation listens
    external,     \* ports on which some other program listens
    resv          \* resv[r]: the allocatePortWithReservation call r

portVars == <<listening, external, resv>>

Reservations == 1 .. MaxReservations

\* The first four bytes of sha256(projectKey) as an unsigned number. The hash
\* itself is not computed: these are two keys whose blocks overlap.
ProjectKeys == {"p", "q"}

HashValue(projectKey) == IF projectKey = "p" THEN 0 ELSE 1

projectBasePort(projectKey) ==
    LET maxBase == 65535 - RANGE_SIZE
        availableRange == maxBase - GLOBAL_BASE
    IN  GLOBAL_BASE + (HashValue(projectKey) % availableRange)

\* isNaN(parseInt(id, 10)): the string does not start with a digit.
IsNaN(id) == id = <<>> \/ id[1] \notin Digits

RECURSIVE DigitPrefix(_)
\* The longest prefix of decimal digits, which is what parseInt reads.
DigitPrefix(s) ==
    IF s = <<>> \/ s[1] \notin Digits THEN <<>>
    ELSE <<s[1]>> \o DigitPrefix(Tail(s))

\* portForVariant; 0 stands for the Invalid variant ID error.
portForVariant(projectKey, variantId) ==
    LET variantNum == ParseInt(DigitPrefix(variantId)) IN
    IF IsNaN(variantId) \/ variantNum < 1 \/ variantNum >= RANGE_SIZE
    THEN 0
    ELSE projectBasePort(projectKey) + variantNum

\* Every port of the blocks of the project keys.
AllPorts ==
    UNION {projectBasePort(k) + 1 .. projectBasePort(k) + RANGE_SIZE - 1 :
            k \in ProjectKeys}

\* The variant ids the callers ask ports for.
VariantIds == {PadStart(StringOf(1), 3), PadStart(StringOf(2), 3)}

\* listen(port, '127.0.0.1') succeeds: nothing listens on the port.
CanListen(port) == port \notin listening \cup external

\* What stays listening after a successful probe of isPortAvailable: nothing,
\* the probing server is closed again.
ProbeThenClose(port) == {}

\* What stays listening after tryReservePort resolves with the server: the
\* server itself, which is the reservation.
ReservedListener(port) == {port}

FreeSlot ==
    [pc |-> "unused", key |-> "p", id |-> <<>>, port |-> 0, owner |-> 0,
     conns |-> FALSE]

\* allocatePortWithReservation(projectKey, variantId) is called, by a direct
\* caller (owner 0) or by DevServer instance `owner`; it runs up to the listen
\* of tryReservePort(preferred), or raises in portForVariant.
AllocateCall(projectKey, variantId, owner) ==
    LET preferred == portForVariant(projectKey, variantId) IN
    [pc |-> IF preferred = 0 THEN "failed" ELSE "preferred",
     key |-> projectKey, id |-> variantId, port |-> preferred, owner |-> owner,
     conns |-> FALSE]

\* The next unused call slot.
NextSlot(r) == resv[r].pc = "unused" /\ \A q \in 1 .. r - 1 : resv[q].pc # "unused"

\* Call r holds a reservation that was not released.
Holds(r) == resv[r].pc = "held"

\* The outcome of one tryReservePort(port) of call r: the listening event
\* resolves with the server, which is returned as the reservation; the error
\* event resolves with null and the call goes on to the next candidate.
TryReservePort(r) ==
    LET port == resv[r].port
        base == projectBasePort(resv[r].key)
        maxPort == base + RANGE_SIZE
        next == IF resv[r].pc = "preferred" THEN base + 1 ELSE port + 1
    IN  IF CanListen(port)
        THEN /\ listening' = listening \cup ReservedListener(port)
             /\ resv' = [resv EXCEPT ![r].pc = "held"]
        ELSE /\ UNCHANGED listening
             /\ resv' = [resv EXCEPT
                    ![r].pc = IF next < maxPort THEN "scan" ELSE "failed",
                    ![r].port = IF next < maxPort THEN next ELSE 0]

\* The listeners left when closeServer resolved without server.close().
ListenerLeftOpen(ls, port) == ls

\* server.close(): the listener on the port is gone.
ClosedListener(ls, port) == ls \ {port}

\* release(): closeServer destroys the connections tracked for the listener
\* and closes the listener; with no connection left the close callback
\* resolves. conns keeps whether there were connections to destroy.
CloseServer(r) ==
    /\ listening' = ClosedListener(listening, resv[r].port)
    /\ resv' = [resv EXCEPT ![r].pc = "released"]

\* A caller asks for a reservation.
Allocate(r, projectKey, variantId) ==
    /\ NextSlot(r)
    /\ resv' = [resv EXCEPT ![r] = AllocateCall(projectKey, variantId, 0)]
    /\ UNCHANGED <<listening, external>>

\* tryReservePort(preferred) settles.
TryPreferred(r) ==
    /\ resv[r].pc = "preferred"
    /\ resv[r].owner = 0
    /\ TryReservePort(r)
    /\ UNCHANGED external

\* tryReservePort(port) of the scan loop settles.
ScanNext(r) ==
    /\ resv[r].pc = "scan"
    /\ resv[r].owner = 0
    /\ TryReservePort(r)
    /\ UNCHANGED external

\* The caller releases a reservation it holds.
ReleaseReservation(r) ==
    /\ Holds(r)
    /\ resv[r].owner = 0
    /\ CloseServer(r)
    /\ UNCHANGED external

\* A client connects to the placeholder listener of a reservation: the
\* connection event adds the socket to the listener's set. conns is whether
\* the set holds a socket.
ClientConnect(r) ==
    /\ Holds(r)
    /\ resv[r].owner = 0
    /\ ~resv[r].conns
    /\ resv' = [resv EXCEPT ![r].conns = TRUE]
    /\ UNCHANGED <<listening, external>>

\* The last client closes its connection: the socket's close event deletes
\* it from the set.
ClientClose(r) ==
    /\ Holds(r)
    /\ resv[r].owner = 0
    /\ resv[r].conns
    /\ resv' = [resv EXCEPT ![r].conns = FALSE]
    /\ UNCHANGED <<listening, external>>

\* Another program starts or stops listening on a port.
ExternalListen(port) ==
    /\ Cardinality(external) < MaxExternal
    /\ port \notin listening \cup external
    /\ external' = external \cup {port}
    /\ UNCHANGED <<listening, resv>>

ExternalClose(port) ==
    /\ port \in external
    /\ external' = external \ {port}
    /\ UNCHANGED <<listening, resv>>

PortsInit ==
    /\ listening = {}
    /\ external = {}
    /\ resv = [r \in Reservations |-> FreeSlot]

\* =========================================================================
\* Dev-server orchestrator: DevServerManager and DevServer
\* =========================================================================

\* Number of startServer, stopServer and stopAll calls one behaviour makes.
MaxApiCalls == 3

VARIABLES
    servers,      \* servers[k]: the DevServer instance the manager tracks for key k (0: none)
    nsrv,         \* number of DevServer instances constructed so far
    srv,          \* srv[s]: the fields of DevServer instance s
    stopPc,       \* stopPc[s][via]: where the stop() of instance s stands
    ncalls,       \* number of manager calls made so far
    lastCall      \* the most recent manager call and the info of the server it found

devVars == <<servers, nsrv, srv, stopPc, ncalls, lastCall>>

\* The project all dev servers of the model belong to.
DevProject == "p"

\* Instance s makes the allocatePortWithReservation call s.
DevServers == Reservations

\* Who called stop(): stopServer, or stopAll.
Vias == {"stopServer", "stopAll"}

NoInfo == [key |-> <<>>, port |-> 0, status |-> "none"]

NoServer ==
    [key |-> <<>>, status |-> "none", startPc |-> "unused", proc |-> "none",
     port |-> 0, readyTimeout |-> FALSE, healthCheck |-> FALSE, error |-> "none",
     probe |-> FALSE, onReady |-> 0, recorded |-> "created", bind |-> "none"]

\* DevServer.getInfo()
GetInfo(s) == [key |-> srv[s].key, port |-> srv[s].port, status |-> srv[s].status]

\* A stop() of instance s is under way.
Stopping(s, via) == stopPc[s][via] \in {"import", "term", "cleanup"}

\* A stop() is about to run cleanup() and return. What is left of it runs
\* from the microtask and nextTick queues (cleanup's release closes a listener
\* without connections), so no timer, I/O or child-process event is handled
\* before it has returned; the caller's own code can still make calls.
MicrotaskPending == \E s \in DevServers, via \in Vias : stopPc[s][via] = "cleanup"

\* The child process of instance s was spawned and has not exited.
Live(s) == srv[s].proc = "alive"

\* startServer's lookup, restricted to servers that are ready.
ExistingIfReady(k) ==
    IF servers[k] # 0 /\ srv[servers[k]].status = "ready" THEN servers[k] ELSE 0

\* startServer: this.servers.get(key)
Existing(k) == servers[k]

\* DevServer.cleanup(): timers cleared, the reservation released and forgotten.
CleanedUp(r) == [r EXCEPT !.port = 0, !.readyTimeout = FALSE, !.healthCheck = FALSE]

ReleasePort(s) ==
    IF srv[s].port # 0
    THEN CloseServer(s)
    ELSE UNCHANGED <<listening, resv>>

\* The map of a startServer whose catch block leaves the key in place.
KeepTracked(k) == servers

\* startServer's catch block: this.servers.delete(key)
Untracked(k) == [servers EXCEPT ![k] = 0]

\* start() raises error err (its catch block: status failed, cleanup) and
\* startServer's catch deletes the key from the map.
StartFails(s, err) ==
    /\ srv' = [srv EXCEPT ![s] =
                [CleanedUp(srv[s]) EXCEPT !.status = "failed", !.startPc = "rejected",
                                          !.error = err]]
    /\ servers' = Untracked(srv[s].key)

\* startServer(options) for key k.
StartServer(k) ==
    /\ ncalls < MaxApiCalls
    /\ ncalls' = ncalls + 1
    /\ IF Existing(k) # 0
       THEN /\ lastCall' = [op |-> "startServer", key |-> k, info |-> GetInfo(Existing(k))]
            /\ UNCHANGED <<servers, nsrv, srv>>
       ELSE /\ nsrv < MaxReservations
            /\ nsrv' = nsrv + 1
            /\ srv' = [srv EXCEPT ![nsrv + 1] =
                        [NoServer EXCEPT !.key = k, !.status = "starting",
                                         !.startPc = "detect"]]
            /\ servers' = [servers EXCEPT ![k] = nsrv + 1]
            /\ lastCall' = [op |-> "startServer", key |-> k, info |-> NoInfo]
    /\ UNCHANGED <<stopPc, portVars>>

\* detectFramework settles: an adapter matched the directory, or none did.
DetectFramework(s, found) ==
    /\ ~MicrotaskPending
    /\ srv[s].startPc = "detect"
    /\ IF found /\ AllocateCall(DevProject, srv[s].key, s).pc # "failed"
       THEN /\ resv' = [resv EXCEPT ![s] = AllocateCall(DevProject, srv[s].key, s)]
            /\ srv' = [srv EXCEPT ![s].startPc = "reserve"]
            /\ UNCHANGED servers
       ELSE /\ StartFails(s, IF found THEN "invalidId" ELSE "noFramework")
            /\ UNCHANGED resv
    /\ UNCHANGED <<listening, external, nsrv, stopPc, ncalls, lastCall>>

\* A tryReservePort of the instance's allocatePortWithReservation settles.
\* With the reservation in hand start() spawns the child (which may fail to
\* spawn), arms the health check and the ready timeout and awaits readiness;
\* with the block exhausted start() raises.
ReservePort(s, spawned) ==
    /\ ~MicrotaskPending
    /\ srv[s].startPc = "reserve"
    /\ resv[s].pc \in {"preferred", "scan"}
    /\ TryReservePort(s)
    /\ CASE resv'[s].pc = "held" ->
                /\ srv' = [srv EXCEPT ![s] =
                            [srv[s] EXCEPT
                                !.port = resv[s].port,
                                !.proc = IF spawned THEN "alive" ELSE "spawnFailing",
                                !.bind = IF spawned THEN "pending" ELSE "none",
                                !.readyTimeout = TRUE,
                                !.healthCheck = TRUE,
                                !.startPc = "awaitReady"]]
                /\ UNCHANGED servers
         [] resv'[s].pc = "failed" -> StartFails(s, "exhausted")
         [] OTHER -> spawned /\ UNCHANGED <<srv, servers>>
    /\ UNCHANGED <<external, nsrv, stopPc, ncalls, lastCall>>

\* The port the child of instance s listens on, if it does.
ChildListener(s) == IF srv[s].bind = "bound" THEN {resv[s].port} ELSE {}

\* The child, started with the port in its arguments and environment and
\* HOST=127.0.0.1, calls listen on that port: it listens when nothing else
\* does, and is refused (EADDRINUSE) otherwise.
ChildListen(s) ==
    /\ Live(s)
    /\ srv[s].bind = "pending"
    /\ IF CanListen(resv[s].port)
       THEN /\ srv' = [srv EXCEPT ![s].bind = "bound"]
            /\ external' = external \cup {resv[s].port}
       ELSE /\ srv' = [srv EXCEPT ![s].bind = "refused"]
            /\ UNCHANGED external
    /\ UNCHANGED <<listening, resv, servers, nsrv, stopPc, ncalls, lastCall>>

\* A probe's answer handled without a look at the status.
ReadyUnchecked(r) ==
    [r EXCEPT !.status = "ready", !.probe = FALSE, !.onReady = r.onReady + 1]

\* handleReady(), reached from the stdout pattern or from a health probe:
\* nothing unless the status is starting; else status ready, the interval
\* cleared, 'ready' emitted (the start promise's listener clears the ready
\* timeout and resolves) and onReady called. r is the instance's fields.
HandleReady(r) ==
    IF r.status # "starting" THEN r
    ELSE [r EXCEPT
            !.status = "ready",
            !.healthCheck = FALSE,
            !.readyTimeout = FALSE,
            !.startPc = IF r.startPc = "awaitReady" THEN "resolved" ELSE r.startPc,
            !.onReady = r.onReady + 1,
            !.recorded = "running"]

\* The child prints a line that matches the adapter's ready pattern while
\* the status is starting.
StdoutReady(s) ==
    /\ ~MicrotaskPending
    /\ Live(s)
    /\ srv[s].status = "starting"
    /\ srv' = [srv EXCEPT ![s] = HandleReady(srv[s])]
    /\ UNCHANGED <<servers, nsrv, stopPc, ncalls, lastCall, portVars>>

\* A tick of the health-check interval sends a probe, one that the child
\* will answer and validateHealth accept.
HealthProbe(s) ==
    /\ ~MicrotaskPending
    /\ Live(s)
    /\ srv[s].healthCheck
    /\ ~srv[s].probe
    /\ srv' = [srv EXCEPT ![s].probe = TRUE]
    /\ UNCHANGED <<servers, nsrv, stopPc, ncalls, lastCall, portVars>>

\* checkHealth after its fetch: handleReady when the status is starting.
ProbeAnswered(r) ==
    [(IF r.status = "starting" THEN HandleReady(r) ELSE r) EXCEPT !.probe = FALSE]

\* The fetch of a probe fails or is aborted: nothing answers on the port, or
\* the connection was the placeholder listener's.
ProbeFails(s) ==
    /\ ~MicrotaskPending
    /\ srv[s].probe
    /\ srv' = [srv EXCEPT ![s].probe = FALSE]
    /\ UNCHANGED <<servers, nsrv, stopPc, ncalls, lastCall, portVars>>

\* The answer to a probe arrives from the child, which listens on the port,
\* whatever happened to the instance since the probe was sent.
HealthReady(s) ==
    /\ ~MicrotaskPending
    /\ srv[s].probe
    /\ Live(s)
    /\ srv[s].bind = "bound"
    /\ srv' = [srv EXCEPT ![s] = ProbeAnswered(srv[s])]
    /\ UNCHANGED <<servers, nsrv, stopPc, ncalls, lastCall, portVars>>

\* The ready timeout fires: status failed, cleanup, the start promise is
\* rejected and startServer's catch deletes the key. The child is left alone.
ReadyTimeout(s) ==
    /\ ~MicrotaskPending
    /\ srv[s].readyTimeout
    /\ ReleasePort(s)
    /\ IF srv[s].startPc = "awaitReady"
       THEN StartFails(s, "timeout")
       ELSE /\ srv' = [srv EXCEPT ![s] = [CleanedUp(srv[s]) EXCEPT !.status = "failed"]]
            /\ UNCHANGED servers
    /\ UNCHANGED <<external, nsrv, stopPc, ncalls, lastCall>>

\* The child exits, with an exit code or killed by a signal. Timers are
\* cleared; unless the status is stopped, the status becomes failed, the error
\* is emitted (rejecting a pending start) and cleanup runs. A stop() waiting
\* for the exit goes on.
ProcessExit(s, how) ==
    /\ ~MicrotaskPending
    /\ Live(s)
    /\ stopPc' = [stopPc EXCEPT ![s] =
                    [via \in Vias |->
                        IF stopPc[s][via] = "term" THEN "cleanup" ELSE stopPc[s][via]]]
    /\ external' = external \ ChildListener(s)
    /\ IF srv[s].status = "stopped"
       THEN /\ srv' = [srv EXCEPT ![s] =
                        [srv[s] EXCEPT !.proc = how, !.readyTimeout = FALSE,
                                       !.healthCheck = FALSE]]
            /\ UNCHANGED <<servers, listening, resv>>
       ELSE /\ ReleasePort(s)
            /\ IF srv[s].startPc = "awaitReady"
               THEN /\ srv' = [srv EXCEPT ![s] =
                                [CleanedUp(srv[s]) EXCEPT
                                    !.proc = how, !.status = "failed",
                                    !.startPc = "rejected", !.error = "exit"]]
                    /\ servers' = Untracked(srv[s].key)
               ELSE /\ srv' = [srv EXCEPT ![s] =
                                [CleanedUp(srv[s]) EXCEPT
                                    !.proc = how, !.status = "failed"]]
                    /\ UNCHANGED servers
    /\ UNCHANGED <<nsrv, ncalls, lastCall>>

\* The child could not be spawned: its error event. Timers are cleared, the
\* error is emitted, the pending start is rejected with status failed, and
\* startServer's catch deletes the key. cleanup() is not called here. onError
\* is called: the variant's record gets status failed.
ProcessError(s) ==
    /\ ~MicrotaskPending
    /\ srv[s].proc = "spawnFailing"
    /\ srv' = [srv EXCEPT ![s] =
                [srv[s] EXCEPT
                    !.proc = "spawnFailed",
                    !.readyTimeout = FALSE,
                    !.healthCheck = FALSE,
                    !.status = IF srv[s].startPc = "awaitReady" THEN "failed"
                               ELSE srv[s].status,
                    !.startPc = IF srv[s].startPc = "awaitReady" THEN "rejected"
                                ELSE srv[s].startPc,
                    !.error = IF srv[s].startPc = "awaitReady" THEN "spawn"
                              ELSE srv[s].error,
                    !.recorded = "failed"]]
    /\ servers' = IF srv[s].startPc = "awaitReady"
                  THEN Untracked(srv[s].key)
                  ELSE servers
    /\ UNCHANGED <<nsrv, stopPc, ncalls, lastCall, portVars>>

\* The synchronous part of DevServer.stop(): status stopped, timers cleared;
\* then the wait for tree-kill when there is a child without an exit code,
\* or else cleanup at once.
StopBegun(r) == [r EXCEPT !.status = "stopped", !.readyTimeout = FALSE,
                          !.healthCheck = FALSE]

AfterStopBegin(s) ==
    IF srv[s].proc \in {"alive", "exitedSignal"} THEN "import" ELSE "cleanup"

\* stopServer(projectKey, variantId) for key k.
StopServer(k) ==
    /\ ncalls < MaxApiCalls
    /\ ncalls' = ncalls + 1
    /\ lastCall' = [op |-> "stopServer", key |-> k,
                    info |-> IF servers[k] = 0 THEN NoInfo ELSE GetInfo(servers[k])]
    /\ IF servers[k] = 0
       THEN UNCHANGED <<srv, stopPc>>
       ELSE /\ ~Stopping(servers[k], "stopServer")
            /\ srv' = [srv EXCEPT ![servers[k]] = StopBegun(srv[servers[k]])]
            /\ stopPc' = [stopPc EXCEPT ![servers[k]]["stopServer"] =
                            AfterStopBegin(servers[k])]
    /\ UNCHANGED <<servers, nsrv, portVars>>

\* The instances the manager tracks.
Tracked == {servers[k] : k \in VariantIds} \ {0}

\* stopAll(): stop() on every tracked instance.
StopAll ==
    /\ ncalls < MaxApiCalls
    /\ ncalls' = ncalls + 1
    /\ lastCall' = [op |-> "stopAll", key |-> <<>>, info |-> NoInfo]
    /\ \A s \in DevServers : ~Stopping(s, "stopAll")
    /\ srv' = [s \in DevServers |-> IF s \in Tracked THEN StopBegun(srv[s]) ELSE srv[s]]
    /\ stopPc' = [s \in DevServers |->
                    IF s \in Tracked
                    THEN [stopPc[s] EXCEPT !["stopAll"] = AfterStopBegin(s)]
                    ELSE stopPc[s]]
    /\ UNCHANGED <<servers, nsrv, portVars>>

\* stop(): tree-kill is loaded; the exit listener and the five-second timer
\* are set and the termination signal is sent.
StopSendTerm(s, via) ==
    /\ ~MicrotaskPending
    /\ stopPc[s][via] = "import"
    /\ stopPc' = [stopPc EXCEPT ![s][via] = "term"]
    /\ UNCHANGED <<servers, nsrv, srv, ncalls, lastCall, portVars>>

\* A stop() that arms no timer: it waits for the exit event only.
WaitForExitOnly(s, via) == FALSE /\ UNCHANGED <<portVars, devVars>>

\* stop(): the child has not exited within the window; the process tree is
\* force-killed.
StopForceKill(s, via) ==
    /\ ~MicrotaskPending
    /\ stopPc[s][via] = "term"
    /\ stopPc' = [stopPc EXCEPT ![s][via] = "cleanup"]
    /\ srv' = [srv EXCEPT ![s].proc =
                IF srv[s].proc = "alive" THEN "exitedSignal" ELSE srv[s].proc]
    /\ external' = IF Live(s) THEN external \ ChildListener(s) ELSE external
    /\ UNCHANGED <<servers, nsrv, ncalls, lastCall, listening, resv>>

\* stop(): cleanup() has released the reservation, onStop is called (the
\* variant's record gets status stopped) and stop() returns. stopServer then
\* deletes the key; stopAll clears the map once every stop() it started has
\* returned.
StopCleanup(s, via) ==
    /\ stopPc[s][via] = "cleanup"
    /\ stopPc' = [stopPc EXCEPT ![s][via] = "done"]
    /\ ReleasePort(s)
    /\ srv' = [srv EXCEPT ![s] = [CleanedUp(srv[s]) EXCEPT !.recorded = "stopped"]]
    /\ servers' =
        IF via = "stopServer"
        THEN [servers EXCEPT ![srv[s].key] = 0]
        ELSE IF \A t \in DevServers \ {s} : ~Stopping(t, "stopAll")
        THEN [k \in VariantIds |-> 0]
        ELSE servers
    /\ UNCHANGED <<external, nsrv, ncalls, lastCall>>

DevInit ==
    /\ servers = [k \in VariantIds |-> 0]
    /\ nsrv = 0
    /\ srv = [s \in DevServers |-> NoServer]
    /\ stopPc = [s \in DevServers |-> [via \in Vias |-> "none"]]
    /\ ncalls = 0
    /\ lastCall = [op |-> "none", key |-> <<>>, info |-> NoInfo]

\* =========================================================================
\* Port allocator without reservations: allocatePort and isPortAvailable
\* =========================================================================

\* Number of allocatePort calls one behaviour makes.
MaxProbeCalls == 2

VARIABLES
    alloc         \* alloc[c]: the allocatePort call c

probeVars == <<alloc>>

ProbeCalls == 1 .. MaxProbeCalls

\* A character that is no decimal digit (a letter).
Letter == 10

\* The variant ids the callers of allocatePort pass: 001, 002 and a letter.
PortIdInputs == VariantIds \cup {<<Letter>>}

\* The project the allocatePort calls are made for; the other project's
\* block overlaps it, and other programs listen on ports of both.
ProbeProject == "p"

NoProbe ==
    [pc |-> "unused", key |-> "p", id |-> <<>>, preferred |-> 0, port |-> 0,
     scan |-> FALSE, moved |-> FALSE]

\* The next unused call slot.
NextProbeSlot(c) ==
    alloc[c].pc = "unused" /\ \A d \in 1 .. c - 1 : alloc[d].pc # "unused"

\* Call c is between its invocation and its return.
Probing(c) == alloc[c].pc \in {"closing", "refused"}

\* The calls in flight other than c see the set of listeners change.
Disturb(a, c) ==
    [d \in ProbeCalls |->
        IF d # c /\ a[d].pc \in {"closing", "refused"}
        THEN [a[d] EXCEPT !.moved = TRUE] ELSE a[d]]

\* The scan of a mutated allocatePort that goes on after the preferred port.
ScanAfterPreferred(base, preferred) == preferred + 1

\* for (let port = base + 1; ...
FirstScanPort(base, preferred) == base + 1

\* isPortAvailable(port) up to its await: createServer().listen(port) binds
\* the port, or fails to; the listening or error event comes later.
IsPortAvailable(c, rec, port, scan) ==
    IF CanListen(port)
    THEN /\ listening' = listening \cup {port}
         /\ alloc' = Disturb([alloc EXCEPT ![c] =
                        [rec EXCEPT !.pc = "closing", !.port = port, !.scan = scan]], c)
    ELSE /\ UNCHANGED listening
         /\ alloc' = [alloc EXCEPT ![c] =
                        [rec EXCEPT !.pc = "refused", !.port = port, !.scan = scan]]

\* allocatePort(projectKey, variantId) is called: portForVariant raises, or
\* the preferred port is probed.
AllocatePort(c, projectKey, variantId) ==
    LET preferred == portForVariant(projectKey, variantId)
        rec == [NoProbe EXCEPT !.key = projectKey, !.id = variantId,
                               !.preferred = preferred]
    IN  /\ NextProbeSlot(c)
        /\ IF preferred = 0
           THEN /\ alloc' = [alloc EXCEPT ![c] = [rec EXCEPT !.pc = "invalid"]]
                /\ UNCHANGED listening
           ELSE IsPortAvailable(c, rec, preferred, FALSE)
        /\ UNCHANGED <<external, resv>>

\* The error event of a probe: isPortAvailable resolves false and allocatePort
\* probes the next port of the block, or raises when the block is used up.
ProbeRefused(c) ==
    LET base == projectBasePort(alloc[c].key)
        maxPort == base + RANGE_SIZE
        next == IF alloc[c].scan THEN alloc[c].port + 1
                ELSE FirstScanPort(base, alloc[c].preferred)
    IN  /\ alloc[c].pc = "refused"
        /\ IF next < maxPort
           THEN IsPortAvailable(c, alloc[c], next, TRUE)
           ELSE /\ alloc' = [alloc EXCEPT ![c].pc = "exhausted", ![c].port = 0]
                /\ UNCHANGED listening
        /\ UNCHANGED <<external, resv>>

\* The listening event of a probe and the close callback of its server:
\* isPortAvailable resolves true and allocatePort returns the port, on which
\* nothing of this call listens any more.
ProbeClosed(c) ==
    /\ alloc[c].pc = "closing"
    /\ listening' = listening \ {alloc[c].port}
    /\ alloc' = Disturb([alloc EXCEPT ![c].pc = "returned"], c)
    /\ UNCHANGED <<external, resv>>

\* Another program starts or stops listening while allocatePort calls run.
ProbeExternalListen(port) ==
    /\ ExternalListen(port)
    /\ alloc' = Disturb(alloc, 0)

ProbeExternalClose(port) ==
    /\ ExternalClose(port)
    /\ alloc' = Disturb(alloc, 0)

ProbeInit == alloc = [c \in ProbeCalls |-> NoProbe]

\* =========================================================================
\* portForVariant, applied to an id
\* =========================================================================

\* Length of the longest variant id portForVariant is applied to.
MaxIdLen == 3

VARIABLES
    pfv           \* the application of portForVariant: its arguments and outcome

pfvVars == <<pfv>>

\* The characters of the ids: the digits 0 to 3 and a letter.
IdChars == 0 .. 3 \cup {Letter}

\* The strings of at most MaxIdLen characters.
IdStrings == UNION {[1 .. n -> IdChars] : n \in 0 .. MaxIdLen}

NoApplication == [pc |-> "none", key |-> "p", id |-> <<>>, port |-> 0]

\* portForVariant(key, id) returns base + variantNum or raises.
ApplyPortForVariant ==
    /\ pfv.pc = "called"
    /\ pfv' = [pfv EXCEPT
                !.pc = IF portForVariant(pfv.key, pfv.id) = 0 THEN "raised"
                       ELSE "returned",
                !.port = portForVariant(pfv.key, pfv.id)]

PfvIdle == pfv = NoApplication

PfvInit ==
    pfv \in {[NoApplication EXCEPT !.pc = "called", !.key = k, !.id = id] :
                k \in ProjectKeys, id \in IdStrings}

\* =========================================================================
\* createWorktree
\* =========================================================================

wtVars == <<wt>>

\* The descriptions createWorktree is called with: none, one without a
\* character a slug keeps, and one with capitals, a dropped character and a
\* run of separators. A character is a one-character string.
Descriptions == {<<>>, <<"!">>, <<"N", "!", " ", "-", "H">>}

\* toLowerCase() on the characters of the descriptions.
ToLowerCase(ch) == CASE ch = "N" -> "n" [] ch = "H" -> "h" [] OTHER -> ch

\* [a-z0-9\-_\s] on the characters of the descriptions.
SlugChars == {"n", "h", "-", "_", " "}

RECURSIVE DropWhile(_, _)
\* s without its leading run of ch.
DropWhile(s, ch) ==
    IF s # <<>> /\ Head(s) = ch THEN DropWhile(Tail(s), ch) ELSE s

RECURSIVE DropTrailing(_, _)
DropTrailing(s, ch) ==
    IF s # <<>> /\ s[Len(s)] = ch
    THEN DropTrailing(SubSeq(s, 1, Len(s) - 1), ch)
    ELSE s

\* s.trim(), the white space being the space character.
Trim(s) == DropTrailing(DropWhile(s, " "), " ")

RECURSIVE ReplaceRuns(_, _, _)
\* s.replace(/ch+/g, by)
ReplaceRuns(s, ch, by) ==
    IF s = <<>> THEN <<>>
    ELSE IF Head(s) = ch
         THEN <<by>> \o ReplaceRuns(DropWhile(Tail(s), ch), ch, by)
         ELSE <<Head(s)>> \o ReplaceRuns(Tail(s), ch, by)

\* Length limit of a slug.
SlugLimit == 50

\* s.substring(0, n)
Substring(s, n) == SubSeq(s, 1, IF Len(s) < n THEN Len(s) ELSE n)

\* sanitizeSlug(description)
sanitizeSlug(description) ==
    IF description = <<>> THEN <<>>
    ELSE LET lower   == [k \in 1 .. Len(description) |-> ToLowerCase(description[k])]
             kept    == SelectSeq(lower, LAMBDA ch : ch \in SlugChars)
             trimmed == Trim(kept)
             dashed  == ReplaceRuns(trimmed, " ", "-")
             single  == ReplaceRuns(dashed, "-", "-")
         IN  Substring(single, SlugLimit)

NoWorktree ==
    [pc |-> "idle", call |-> NoLock, description |-> <<>>, id |-> <<>>,
     branch |-> NoBranch, error |-> "none", added |-> FALSE,
     base |-> "none", fetches |-> 0, tries |-> 0]

\* The DirectoryManager calls createWorktree makes.
WorktreeOp(name, id, upd) ==
    [name |-> name, inst |-> FirstInstance, id |-> id, upd |-> upd]

\* What the repository answers about baseRef: it resolves at once, it
\* resolves after the fetch, the fetch fails, it does not resolve after the
\* fetch either.
BaseOutcomes == {"resolved", "fetched", "fetchFailed", "notFound"}

\* The mutant of C31: the base reference is taken as resolved.
AssumeResolved(base) ==
    [ok |-> TRUE, fetches |-> 0, tries |-> 0, error |-> "none"]

\* The verification of baseRef: `rev-parse --verify`; when it fails, one
\* fetch (its error is createWorktree's) and one more `rev-parse --verify`,
\* whose failure is the "Base reference not found" error.
VerifyBaseRef(base) ==
    IF base = "resolved"
    THEN [ok |-> TRUE, fetches |-> 0, tries |-> 1, error |-> "none"]
    ELSE IF base = "fetched"
    THEN [ok |-> TRUE, fetches |-> 1, tries |-> 2, error |-> "none"]
    ELSE IF base = "fetchFailed"
    THEN [ok |-> FALSE, fetches |-> 1, tries |-> 1, error |-> "fetch"]
    ELSE [ok |-> FALSE, fetches |-> 1, tries |-> 2, error |-> "baseRef"]

\* createWorktree(baseRef): the base reference is verified (after a fetch if
\* need be); when it is not found the call raises, otherwise it calls
\* allocateVariantId.
CreateWorktree(base, description) ==
    LET v == VerifyBaseRef(base)
        seen == [wt EXCEPT !.description = description, !.base = base,
                           !.fetches = v.fetches, !.tries = v.tries]
    IN
    /\ wt.pc = "idle"
    /\ IF v.ok
       THEN \E c \in Calls :
                /\ Invoke(c, WorktreeOp("allocateVariantId", <<>>, "none"))
                /\ wt' = [seen EXCEPT !.pc = "allocating", !.call = c]
       ELSE /\ wt' = [seen EXCEPT !.pc = "raised", !.error = v.error]
            /\ UNCHANGED metaVars

\* allocateVariantId settles: its id is the variant's, or its error is
\* createWorktree's (the call is outside the try).  What the verification
\* of baseRef saw is not read again.
AllocateSettled ==
    LET verified == [wt EXCEPT !.base = "none", !.fetches = 0, !.tries = 0] IN
    /\ wt.pc = "allocating"
    /\ pc[wt.call] \in {"done", "failed"}
    /\ wt' = IF pc[wt.call] = "done"
             THEN [verified EXCEPT !.pc = "git", !.id = ret[wt.call],
                                   !.branch = BranchName(ret[wt.call],
                                                  sanitizeSlug(wt.description))]
             ELSE [verified EXCEPT !.pc = "raised", !.error = "allocate"]
    /\ UNCHANGED metaVars

\* branchLocal and `git worktree add` settle: the worktree directory is
\* there, or the error is caught.
GitWorktreeAdd(ok) ==
    /\ wt.pc = "git"
    /\ IF ok
       THEN /\ variantDirs' = variantDirs \cup {wt.id}
            /\ wt' = [wt EXCEPT !.pc = "added", !.added = TRUE]
       ELSE /\ wt' = [wt EXCEPT !.pc = "caught", !.error = "git"]
            /\ UNCHANGED variantDirs
    /\ UNCHANGED <<file, tmp, activeLocks, pc, op, md, awaited, waitq, ret,
                   returned, file0, overlapped, burst>>

\* log and getOriginUrl settle: the record is updated with its details and
\* status 'created', or the error of log is caught.
UpdateCreated(ok) ==
    /\ wt.pc = "added"
    /\ IF ok
       THEN \E c \in Calls :
                /\ Invoke(c, WorktreeOp("updateVariant", wt.id, "created"))
                /\ wt' = [wt EXCEPT !.pc = "updating", !.call = c]
       ELSE /\ wt' = [wt EXCEPT !.pc = "caught", !.error = "git"]
            /\ UNCHANGED metaVars

\* updateVariant(created) settles: createWorktree returns, or the error is
\* caught.
UpdateSettled ==
    /\ wt.pc = "updating"
    /\ pc[wt.call] \in {"done", "failed"}
    /\ wt' = IF pc[wt.call] = "done"
             THEN [wt EXCEPT !.pc = "returned"]
             ELSE [wt EXCEPT !.pc = "caught", !.error = "update"]
    /\ UNCHANGED metaVars

\* The catch block: updateVariant with status 'failed' and the message.
MarkFailed ==
    /\ wt.pc = "caught"
    /\ \E c \in Calls :
            /\ Invoke(c, WorktreeOp("updateVariant", wt.id, "failed"))
            /\ wt' = [wt EXCEPT !.pc = "marking", !.call = c]

\* updateVariant(failed) settles: the catch block goes on to remove the
\* worktree, or the error of updateVariant leaves the catch block.
MarkSettled ==
    /\ wt.pc = "marking"
    /\ pc[wt.call] \in {"done", "failed"}
    /\ wt' = IF pc[wt.call] = "done"
             THEN [wt EXCEPT !.pc = "cleanup"]
             ELSE [wt EXCEPT !.pc = "raised", !.error = "mark"]
    /\ UNCHANGED metaVars

\* `git worktree remove --force` settles, its error ignored; then
\* `throw error`.
RemoveAndRaise ==
    /\ wt.pc = "cleanup"
    /\ variantDirs' = IF wt.added THEN variantDirs \ {wt.id} ELSE variantDirs
    /\ wt' = [wt EXCEPT !.pc = "raised"]
    /\ UNCHANGED <<file, tmp, activeLocks, pc, op, md, awaited, waitq, ret,
                   returned, file0, overlapped, burst>>

WtInit == wt = NoWorktree

\* =========================================================================
\* removeWorktree and mergeVariant
\* =========================================================================

VARIABLES
    branches,  \* the local branches of the repository that belong to variants
    rw,        \* rw[via]: the removeWorktree call made directly or by mergeVariant
    mg,        \* the mergeVariant call
    target     \* what the merge did to the target branch

gitVars == <<branches, rw, mg, target>>

\* Who calls removeWorktree: a caller of the manager, or mergeVariant.
RwVias == {"direct", "merge"}

\* type MergeStrategy
MergeStrategies == {"merge", "squash", "ff"}

NoRemoval == [pc |-> "idle", id |-> <<>>, branch |-> NoBranch, call |-> NoLock]

\* What mergeVariant must leave alone when it raises: the variant's record,
\* branch and worktree.
KeptOf(f, bs, dirs, id, branch) ==
    [record |-> IF f.exists /\ FindIndex(f.variants, id) # 0
                THEN <<f.variants[FindIndex(f.variants, id)]>>
                ELSE <<>>,
     branch |-> branch \in bs,
     worktree |-> id \in dirs]

Kept(id, branch) == KeptOf(file, branches, variantDirs, id, branch)

NoMerge ==
    [pc |-> "idle", id |-> <<>>, strategy |-> "merge", branch |-> NoBranch,
     error |-> "none",
     before |-> [record |-> <<>>, branch |-> FALSE, worktree |-> FALSE]]

\* No removeWorktree or mergeVariant call is under way.
GitQuiet ==
    /\ \A via \in RwVias : rw[via].pc \in {"idle", "returned", "raised"}
    /\ mg.pc \in {"idle", "returned", "raised"}

\* removeWorktree(variantId) runs to its first await, readMetadata.
BeginRemoval(via, id) == [rw EXCEPT ![via] = [NoRemoval EXCEPT !.pc = "read", !.id = id]]

\* A caller calls removeWorktree(variantId).
RemoveWorktree(id) ==
    /\ GitQuiet
    /\ rw["direct"].pc = "idle"
    /\ rw' = BeginRemoval("direct", id)
    /\ UNCHANGED <<metaVars, branches, mg, target>>

\* removeWorktree: readMetadata settles, outside any try; the variant is
\* looked up for its branch.
RwReadMetadata(via) ==
    /\ rw[via].pc = "read"
    /\ rw' = [rw EXCEPT ![via] =
                IF file.exists /\ ~file.complete
                THEN [@ EXCEPT !.pc = "raised"]
                ELSE LET k == IF file.exists THEN FindIndex(file.variants, @.id) ELSE 0
                     IN  [@ EXCEPT !.pc = "remove",
                                   !.branch = IF k = 0 THEN NoBranch
                                              ELSE file.variants[k].branch]]
    /\ UNCHANGED <<metaVars, branches, mg, target>>

\* removeWorktree: `git worktree remove --force` settles; its error is logged.
RwWorktreeRemove(via, ok) ==
    /\ rw[via].pc = "remove"
    /\ variantDirs' = IF ok THEN variantDirs \ {rw[via].id} ELSE variantDirs
    /\ rw' = [rw EXCEPT ![via].pc =
                IF rw[via].branch # NoBranch THEN "branch" ELSE "prune"]
    /\ UNCHANGED <<file, tmp, activeLocks, pc, op, md, awaited, waitq, ret,
                   returned, file0, overlapped, burst>>
    /\ UNCHANGED <<branches, mg, target>>

\* removeWorktree: branchLocal and `git branch -D` settle; an error is logged.
RwBranchDelete(via, ok) ==
    /\ rw[via].pc = "branch"
    /\ branches' = IF ok THEN branches \ {rw[via].branch} ELSE branches
    /\ rw' = [rw EXCEPT ![via].pc = "prune"]
    /\ UNCHANGED <<metaVars, mg, target>>

\* removeWorktree: `git worktree prune` settles, outside any try; then
\* removeVariant is called.
RwPrune(via, ok) ==
    /\ rw[via].pc = "prune"
    /\ IF ok
       THEN \E c \in Calls :
                /\ Invoke(c, WorktreeOp("removeVariant", rw[via].id, "none"))
                /\ rw' = [rw EXCEPT ![via].pc = "removing", ![via].call = c]
       ELSE /\ rw' = [rw EXCEPT ![via].pc = "raised"]
            /\ UNCHANGED metaVars
    /\ UNCHANGED <<branches, mg, target>>

\* mergeVariant's catch: whatever the try raised becomes 'Merge failed'.
MergeCaught(m) == [m EXCEPT !.pc = "raised", !.error = "mergeFailed"]

\* removeWorktree: removeVariant settles and removeWorktree returns or
\* raises; mergeVariant, when it made the call, returns or catches.
RwSettled(via) ==
    /\ rw[via].pc = "removing"
    /\ pc[rw[via].call] \in {"done", "failed"}
    /\ rw' = [rw EXCEPT ![via].pc =
                IF pc[rw[via].call] = "done" THEN "returned" ELSE "raised"]
    /\ mg' = IF via = "merge"
             THEN IF pc[rw[via].call] = "done"
                  THEN [mg EXCEPT !.pc = "returned"]
                  ELSE MergeCaught(mg)
             ELSE mg
    /\ UNCHANGED <<metaVars, branches, target>>

\* A removeWorktree that mergeVariant awaits has raised before removeVariant.
RwRaisedInMerge ==
    /\ rw["merge"].pc = "raised"
    /\ mg.pc = "remove"
    /\ mg' = MergeCaught(mg)
    /\ UNCHANGED <<metaVars, branches, rw, target>>

\* A caller calls mergeVariant(variantId, targetBranch, strategy).
MergeVariant(id, strategy) ==
    /\ GitQuiet
    /\ mg.pc = "idle"
    /\ mg' = [NoMerge EXCEPT !.pc = "read", !.id = id, !.strategy = strategy]
    /\ UNCHANGED <<metaVars, branches, rw, target>>

\* mergeVariant: readMetadata settles; without the variant it raises.
MgReadMetadata ==
    /\ mg.pc = "read"
    /\ LET k == IF file.exists /\ file.complete
                THEN FindIndex(file.variants, mg.id) ELSE 0
       IN  mg' = IF k = 0
                 THEN [mg EXCEPT !.pc = "raised", !.error = "notFound",
                                 !.before = Kept(mg.id, NoBranch)]
                 ELSE [mg EXCEPT !.pc = "fetch",
                                 !.branch = file.variants[k].branch,
                                 !.before = Kept(mg.id, file.variants[k].branch)]
    /\ UNCHANGED <<metaVars, branches, rw, target>>

\* mergeVariant: fetch, then checkout(targetBranch), both outside the try.
MgFetch(ok) ==
    /\ mg.pc = "fetch"
    /\ mg' = IF ok THEN [mg EXCEPT !.pc = "checkout"]
             ELSE [mg EXCEPT !.pc = "raised", !.error = "fetch"]
    /\ UNCHANGED <<metaVars, branches, rw, target>>

MgCheckout(ok) ==
    /\ mg.pc = "checkout"
    /\ mg' = IF ok THEN [mg EXCEPT !.pc = "merge"]
             ELSE [mg EXCEPT !.pc = "raised", !.error = "checkout"]
    /\ UNCHANGED <<metaVars, branches, rw, target>>

\* mergeVariant: git merge settles. A squash merge goes on to commit; the
\* other strategies, once merged, call removeWorktree.
MgMerge(ok) ==
    /\ mg.pc = "merge"
    /\ IF ~ok
       THEN /\ mg' = MergeCaught(mg)
            /\ UNCHANGED <<rw, target>>
       ELSE IF mg.strategy = "squash"
       THEN /\ mg' = [mg EXCEPT !.pc = "commit"]
            /\ target' = "staged"
            /\ UNCHANGED rw
       ELSE /\ mg' = [mg EXCEPT !.pc = "remove"]
            /\ target' = "merged"
            /\ rw' = BeginRemoval("merge", mg.id)
    /\ UNCHANGED <<metaVars, branches>>

\* mergeVariant, squash: the commit settles; then removeWorktree is called.
MgCommit(ok) ==
    /\ mg.pc = "commit"
    /\ IF ok
       THEN /\ mg' = [mg EXCEPT !.pc = "remove"]
            /\ target' = "merged"
            /\ rw' = BeginRemoval("merge", mg.id)
       ELSE /\ mg' = MergeCaught(mg)
            /\ UNCHANGED <<rw, target>>
    /\ UNCHANGED <<metaVars, branches>>

GitIdle ==
    /\ branches = {}
    /\ rw = [via \in RwVias |-> NoRemoval]
    /\ mg = NoMerge
    /\ target = "untouched"

\* =========================================================================
\* applyPatchToWorktree
\* =========================================================================

VARIABLES
    ap,    \* the applyPatchToWorktree call: its position and its locals
    tree   \* the variant's worktree: the patch file, the changes, the commits

patchVars == <<ap, tree>>

\* The name of the temporary patch file; the other paths of the worktree the
\* model tells apart are "patched" (the files the patch changes) and "other"
\* (a file changed before the call).
TempPatch == ".parallel-ui-temp.patch"

\* How a spawned `git apply` ends: exit code 0, another exit code (or a
\* signal), or the 'error' event of a child that could not be spawned, which
\* has no listener and ends the process.
ApplyOutcomes == {"ok", "failed", "spawnError"}

NoPatchCall ==
    [pc |-> "idle", id |-> <<>>, call |-> NoLock, applied |-> FALSE,
     applyError |-> "none", error |-> "none", reasons |-> {}]

\* An error that tells of the plain attempt only.
PlainErrorOnly(applyError) == {"git apply failed"}

\* The failures the message of the fallback's error tells of:
\* `git apply failed (exit ..): <stderr>. 3-way attempt: ${applyError}`
CombinedError(applyError) == {"git apply failed", applyError}

\* A worktree without the temporary file: `changed` are the paths that
\* differ from HEAD, `ignored` tells whether the project's .gitignore covers
\* the temporary file's name.
CleanTree(changed, ignored) ==
    [patchFile |-> FALSE, changed |-> changed, staged |-> {}, commits |-> <<>>,
     ignored |-> ignored]

\* The finally block raises the error of the try block, or returns.
Finished(a) == [a EXCEPT !.pc = IF a.error = "none" THEN "returned" ELSE "raised"]

\* An rm that leaves the file where it is.
LeftInPlace(exists) == exists

\* rm(patchPath, { force: true }): the file is not there afterwards, whether
\* it was there or not.
RmForce(exists) == FALSE

\* worktreeGit.add('.'): every path of the worktree that differs from HEAD
\* and is not ignored is staged, the temporary file among them.
AddAll(tr) ==
    tr.staged \cup tr.changed
        \cup (IF tr.patchFile /\ ~tr.ignored THEN {TempPatch} ELSE {})

\* applyPatchToWorktree(variantId, patchContent) starts: writeFile is called.
ApplyPatch(id) ==
    /\ ap.pc = "idle"
    /\ ap' = [ap EXCEPT !.pc = "writeFile", !.id = id]
    /\ UNCHANGED <<tree, metaVars>>

\* writeFile(patchPath, patchContent) settles.
ApWriteFile(ok) ==
    /\ ap.pc = "writeFile"
    /\ IF ok
       THEN /\ tree' = [tree EXCEPT !.patchFile = TRUE]
            /\ ap' = [ap EXCEPT !.pc = "threeWay"]
       ELSE /\ ap' = [ap EXCEPT !.pc = "finally", !.error = "writeFile"]
            /\ UNCHANGED tree
    /\ UNCHANGED metaVars

\* `git apply --3way` ends: the patch is applied to the files and the index,
\* or the attempt's message is kept and `git apply` is spawned.
ApThreeWay(outcome) ==
    /\ ap.pc = "threeWay"
    /\ CASE outcome = "ok" ->
              /\ tree' = [tree EXCEPT !.changed = @ \cup {"patched"},
                                      !.staged = @ \cup {"patched"}]
              /\ ap' = [ap EXCEPT !.pc = "add", !.applied = TRUE]
         [] outcome = "failed" ->
              /\ ap' = [ap EXCEPT !.pc = "plain", !.applyError = "3-way merge failed"]
              /\ UNCHANGED tree
         [] OTHER ->
              /\ ap' = [ap EXCEPT !.pc = "crashed"]
              /\ UNCHANGED tree
    /\ UNCHANGED metaVars

\* `git apply` ends: the patch is applied to the files, or the error with
\* both messages leaves the try block.
ApPlain(outcome) ==
    /\ ap.pc = "plain"
    /\ CASE outcome = "ok" ->
              /\ tree' = [tree EXCEPT !.changed = @ \cup {"patched"}]
              /\ ap' = [ap EXCEPT !.pc = "add"]
         [] outcome = "failed" ->
              /\ ap' = [ap EXCEPT !.pc = "finally", !.error = "bothFailed",
                                  !.reasons = CombinedError(ap.applyError)]
              /\ UNCHANGED tree
         [] OTHER ->
              /\ ap' = [ap EXCEPT !.pc = "crashed"]
              /\ UNCHANGED tree
    /\ UNCHANGED metaVars

\* worktreeGit.add('.') settles.
ApAdd(ok) ==
    /\ ap.pc = "add"
    /\ IF ok
       THEN /\ tree' = [tree EXCEPT !.staged = AddAll(tree)]
            /\ ap' = [ap EXCEPT !.pc = "status"]
       ELSE /\ ap' = [ap EXCEPT !.pc = "finally", !.error = "add"]
            /\ UNCHANGED tree
    /\ UNCHANGED metaVars

\* worktreeGit.status() settles: a commit is made unless the worktree is
\* clean.
ApStatus(ok) ==
    /\ ap.pc = "status"
    /\ ap' = IF ~ok THEN [ap EXCEPT !.pc = "finally", !.error = "status"]
             ELSE IF tree.staged = {} THEN [ap EXCEPT !.pc = "update"]
             ELSE [ap EXCEPT !.pc = "commit"]
    /\ UNCHANGED <<tree, metaVars>>

\* worktreeGit.commit(message) settles: the staged paths are a commit of the
\* variant's branch.
ApCommit(ok) ==
    /\ ap.pc = "commit"
    /\ IF ok
       THEN /\ tree' = [tree EXCEPT !.commits = Append(@, tree.staged),
                                    !.changed = @ \ tree.staged,
                                    !.staged = {}]
            /\ ap' = [ap EXCEPT !.pc = "update"]
       ELSE /\ ap' = [ap EXCEPT !.pc = "finally", !.error = "commit"]
            /\ UNCHANGED tree
    /\ UNCHANGED metaVars

\* updateVariant(projectPath, variantId, updater) is called.
ApUpdate ==
    /\ ap.pc = "update"
    /\ \E c \in Calls :
            /\ Invoke(c, WorktreeOp("updateVariant", ap.id, "touch"))
            /\ ap' = [ap EXCEPT !.pc = "updating", !.call = c]
    /\ UNCHANGED tree

\* updateVariant settles: the try block is left, with its error if it
\* raised.
ApUpdateSettled ==
    /\ ap.pc = "updating"
    /\ pc[ap.call] \in {"done", "failed"}
    /\ ap' = IF pc[ap.call] = "done"
             THEN [ap EXCEPT !.pc = "finally"]
             ELSE [ap EXCEPT !.pc = "finally", !.error = "updateVariant"]
    /\ UNCHANGED <<tree, metaVars>>

\* The finally block: the temporary file is removed; the call returns, or
\* raises the error of the try block.  A committed temporary file is from
\* then on a deleted path of the worktree.
ApFinally ==
    /\ ap.pc = "finally"
    /\ tree' = [tree EXCEPT
            !.patchFile = RmForce(@),
            !.changed = IF tree.patchFile /\ ~RmForce(tree.patchFile)
                           /\ \E k \in 1 .. Len(tree.commits) :
                                    TempPatch \in tree.commits[k]
                        THEN @ \cup {TempPatch} ELSE @]
    /\ ap' = Finished(ap)
    /\ UNCHANGED metaVars

PatchIdle == ap = NoPatchCall /\ tree = CleanTree({}, FALSE)

PatchInit ==
    /\ ap = NoPatchCall
    /\ tree \in {CleanTree(changed, ignored) :
                    changed \in {{}, {"other"}}, ignored \in BOOLEAN}

\* =========================================================================
\* ServerRegistry
\* =========================================================================

\* Number of addServer and removeServer calls one behaviour makes.
MaxRegCalls == 3

VARIABLES
    locks,     \* this.locks.get(dir): the call whose promise is in the map, or 0
    fsLock,    \* registry.lock: "free", held by this process, or by another
    reg,       \* reg[c]: registry call c
    registry   \* the variant ids that are keys of registry.json's servers

regVars == <<locks, fsLock, reg, registry>>

RegCalls == 1 .. MaxRegCalls

\* The calls a caller makes on the registry of one project.
RegOps == {[name |-> n, id |-> id] : n \in {"addServer", "removeServer"}, id \in InputIds}

NoRegCall ==
    [pc |-> "idle", op |-> [name |-> "none", id |-> <<>>], awaited |-> 0,
     error |-> "none"]

\* withLock up to its first await: the wait for the promise in the map, or
\* else its own promise is put in the map and mkdir is called.
RegEnter(r) ==
    IF locks # 0 THEN [r EXCEPT !.pc = "waiting", !.awaited = locks]
    ELSE [r EXCEPT !.pc = "mkdir"]

\* addServer or removeServer is called as call c.
RegInvoke(c, o) ==
    /\ reg[c].pc = "idle"
    /\ \A d \in 1 .. c - 1 : reg[d].pc # "idle"
    /\ reg' = [reg EXCEPT ![c] = RegEnter([reg[c] EXCEPT !.op = o])]
    /\ locks' = IF locks # 0 THEN locks ELSE c
    /\ UNCHANGED <<fsLock, registry>>

\* mkdir(dir, {recursive}) settles: lockfile.lock is called, or the error
\* leaves withLock (the call is before the try).
RegMkdir(c, ok) ==
    /\ reg[c].pc = "mkdir"
    /\ reg' = [reg EXCEPT ![c] =
                IF ok THEN [reg[c] EXCEPT !.pc = "lock"]
                ELSE [reg[c] EXCEPT !.pc = "failed", !.error = "mkdir"]]
    /\ UNCHANGED <<locks, fsLock, registry>>

\* lockfile.lock settles: registry.lock is taken when it is free (at once or
\* in one of the retries); when it stays held through the retries the error
\* leaves withLock (the call is before the try).
RegLock(c) ==
    /\ reg[c].pc = "lock"
    /\ IF fsLock = "free"
       THEN /\ fsLock' = "self"
            /\ reg' = [reg EXCEPT ![c].pc = "fn"]
       ELSE /\ reg' = [reg EXCEPT ![c].pc = "failed", ![c].error = "lock"]
            /\ UNCHANGED fsLock
    /\ UNCHANGED <<locks, registry>>

\* registry.servers after fn: the entry set, or deleted.
RegApply(o, ids) ==
    IF o.name = "addServer" THEN ids \cup {o.id} ELSE ids \ {o.id}

\* The map entry after withLock's finally of call c and the resumption of
\* the calls that awaited its promise: the entry is deleted, whoever set
\* it, and each resumed call puts its own promise in the map.
AfterRelease(c) ==
    LET woken == {d \in RegCalls : reg[d].pc = "waiting" /\ reg[d].awaited = c} IN
    IF woken = {} THEN 0 ELSE CHOOSE d \in woken : \A e \in woken : e <= d

\* fn settles (read, the change, write with its rename), then the finally
\* block: registry.lock is released, the map entry deleted, the promise
\* resolved; the calls awaiting it go on to their mkdir.
RegFn(c, ok) ==
    /\ reg[c].pc = "fn"
    /\ registry' = IF ok THEN RegApply(reg[c].op, registry) ELSE registry
    /\ fsLock' = "free"
    /\ locks' = AfterRelease(c)
    /\ reg' = [d \in RegCalls |->
                IF d = c
                THEN [reg[c] EXCEPT !.pc = IF ok THEN "done" ELSE "failed",
                                    !.error = IF ok THEN "none" ELSE "write"]
                ELSE IF reg[d].pc = "waiting" /\ reg[d].awaited = c
                THEN [reg[d] EXCEPT !.pc = "mkdir", !.awaited = 0]
                ELSE reg[d]]

\* Another process takes or returns registry.lock.
OtherLocks ==
    /\ fsLock = "free"
    /\ fsLock' = "other"
    /\ UNCHANGED <<locks, reg, registry>>

OtherUnlocks ==
    /\ fsLock = "other"
    /\ fsLock' = "free"
    /\ UNCHANGED <<locks, reg, registry>>

RegIdle ==
    /\ locks = 0
    /\ fsLock = "free"
    /\ reg = [c \in RegCalls |-> NoRegCall]
    /\ registry = {}

RegInit ==
    /\ locks = 0
    /\ fsLock \in {"free", "other"}
    /\ reg = [c \in RegCalls |-> NoRegCall]
    /\ registry \in SUBSET InputIds

\* =========================================================================
\* Specifications
\* =========================================================================

vars == <<metaVars, portVars, devVars, probeVars, pfvVars, wtVars, gitVars, patchVars, regVars>>

\* What the behaviours of one part of the program leave alone.
outsideMeta == <<portVars, devVars, probeVars, pfvVars, wtVars, gitVars, patchVars, regVars>>
outsidePorts == <<metaVars, devVars, probeVars, pfvVars, wtVars, gitVars, patchVars, regVars>>
outsideDev == <<metaVars, probeVars, pfvVars, wtVars, gitVars, patchVars, regVars>>
outsideProbe == <<metaVars, devVars, pfvVars, wtVars, gitVars, patchVars, regVars>>
outsidePfv == <<metaVars, portVars, devVars, probeVars, wtVars, gitVars, patchVars, regVars>>
outsideWt == <<portVars, devVars, probeVars, pfvVars, gitVars, patchVars, regVars>>
outsideGit == <<portVars, devVars, probeVars, pfvVars, wtVars, patchVars, regVars>>
outsidePatch == <<portVars, devVars, probeVars, pfvVars, wtVars, gitVars, regVars>>
outsideReg ==
    <<metaVars, portVars, devVars, probeVars, pfvVars, wtVars, gitVars, patchVars>>

\* A project's record as the orchestrator's behaviours leave it.
MetaIdle ==
    /\ file = NoFile
    /\ file0 = NoFile
    /\ tmp = [c \in Calls |-> NoFile]
    /\ variantDirs = {}
    /\ activeLocks = [i \in Instances |-> NoLock]
    /\ pc = [c \in Calls |-> "idle"]
    /\ op = [c \in Calls |-> NoOp]
    /\ md = [c \in Calls |-> NullMd]
    /\ awaited = [c \in Calls |-> NoLock]
    /\ waitq = <<>>
    /\ ret = [c \in Calls |-> <<>>]
    /\ returned = <<>>
    /\ overlapped = FALSE
    /\ burst = TRUE

\* Nothing but the part under study has been used.
IdleOutsideMeta == PortsInit /\ DevInit /\ ProbeInit /\ PfvIdle /\ WtInit /\ GitIdle /\ PatchIdle /\ RegIdle
IdleOutsideDev == MetaIdle /\ ProbeInit /\ PfvIdle /\ WtInit /\ GitIdle /\ PatchIdle /\ RegIdle

MetaNext ==
    \/ \E c \in Calls, o \in Ops : Invoke(c, o) /\ UNCHANGED outsideMeta
    \/ \E c \in Calls : Read(c) /\ UNCHANGED outsideMeta
    \/ \E c \in Calls : InitRead(c) /\ UNCHANGED outsideMeta
    \/ \E c \in Calls :
            WriteBegin(c, "initWrite", "initRename") /\ UNCHANGED outsideMeta
    \/ \E c \in Calls : InitRename(c) /\ UNCHANGED outsideMeta
    \/ \E c \in Calls :
            WriteBegin(c, "write", "rename") /\ UNCHANGED outsideMeta
    \/ \E c \in Calls : Rename(c) /\ UNCHANGED outsideMeta
    \/ \E c \in Calls : Rmdir(c) /\ UNCHANGED outsideMeta
    \/ \E i \in Instances : Crash(i) /\ UNCHANGED outsideMeta

\* The metadata store alone.
MetaStart == MetaInit /\ IdleOutsideMeta

MetaSpec == MetaStart /\ [][MetaNext]_vars

\* The calls made on one DirectoryManager.
LockOps == {o \in Ops : o.inst = FirstInstance}

LockNext ==
    \/ \E c \in Calls, o \in LockOps : Invoke(c, o) /\ UNCHANGED outsideMeta
    \/ \E c \in Calls : Read(c) /\ UNCHANGED outsideMeta
    \/ \E c \in Calls : InitRead(c) /\ UNCHANGED outsideMeta
    \/ \E c \in Calls :
            WriteBegin(c, "initWrite", "initRename") /\ UNCHANGED outsideMeta
    \/ \E c \in Calls : InitRename(c) /\ UNCHANGED outsideMeta
    \/ \E c \in Calls :
            WriteBegin(c, "write", "rename") /\ UNCHANGED outsideMeta
    \/ \E c \in Calls : Rename(c) /\ UNCHANGED outsideMeta
    \/ \E c \in Calls : Rmdir(c) /\ UNCHANGED outsideMeta
    \/ \E c \in Calls : Hang(c) /\ UNCHANGED outsideMeta

\* A file-system operation that has not stalled completes, and the
\* continuations of the process then run.
LockFairness ==
    \A c \in Calls :
        /\ WF_vars(Read(c) /\ UNCHANGED outsideMeta)
        /\ WF_vars(InitRead(c) /\ UNCHANGED outsideMeta)
        /\ WF_vars(WriteBegin(c, "initWrite", "initRename") /\ UNCHANGED outsideMeta)
        /\ WF_vars(InitRename(c) /\ UNCHANGED outsideMeta)
        /\ WF_vars(WriteBegin(c, "write", "rename") /\ UNCHANGED outsideMeta)
        /\ WF_vars(Rename(c) /\ UNCHANGED outsideMeta)
        /\ WF_vars(Rmdir(c) /\ UNCHANGED outsideMeta)

\* One DirectoryManager, whose file-system operations complete unless they
\* stall.
LockLiveSpec == MetaStart /\ [][LockNext]_vars /\ LockFairness

PortsNext ==
    \/ \E r \in Reservations, k \in ProjectKeys, id \in VariantIds :
            Allocate(r, k, id) /\ UNCHANGED outsidePorts
    \/ \E r \in Reservations : TryPreferred(r) /\ UNCHANGED outsidePorts
    \/ \E r \in Reservations : ScanNext(r) /\ UNCHANGED outsidePorts
    \/ \E r \in Reservations : ReleaseReservation(r) /\ UNCHANGED outsidePorts
    \/ \E r \in Reservations : ClientConnect(r) /\ UNCHANGED outsidePorts
    \/ \E r \in Reservations : ClientClose(r) /\ UNCHANGED outsidePorts
    \/ \E port \in AllPorts : ExternalListen(port) /\ UNCHANGED outsidePorts
    \/ \E port \in AllPorts : ExternalClose(port) /\ UNCHANGED outsidePorts

\* The port allocator alone, called directly.
PortsStart == PortsInit /\ DevInit /\ IdleOutsideDev

PortsSpec == PortsStart /\ [][PortsNext]_vars

DevNext ==
    \/ \E k \in VariantIds : StartServer(k) /\ UNCHANGED outsideDev
    \/ \E s \in DevServers, found \in BOOLEAN :
            DetectFramework(s, found) /\ UNCHANGED outsideDev
    \/ \E s \in DevServers, spawned \in BOOLEAN :
            ReservePort(s, spawned) /\ UNCHANGED outsideDev
    \/ \E s \in DevServers : StdoutReady(s) /\ UNCHANGED outsideDev
    \/ \E s \in DevServers : HealthProbe(s) /\ UNCHANGED outsideDev
    \/ \E s \in DevServers : ChildListen(s) /\ UNCHANGED outsideDev
    \/ \E s \in DevServers : ProbeFails(s) /\ UNCHANGED outsideDev
    \/ \E s \in DevServers : HealthReady(s) /\ UNCHANGED outsideDev
    \/ \E s \in DevServers : ReadyTimeout(s) /\ UNCHANGED outsideDev
    \/ \E s \in DevServers, how \in {"exitedCode", "exitedSignal"} :
            ProcessExit(s, how) /\ UNCHANGED outsideDev
    \/ \E s \in DevServers : ProcessError(s) /\ UNCHANGED outsideDev
    \/ \E k \in VariantIds : StopServer(k) /\ UNCHANGED outsideDev
    \/ StopAll /\ UNCHANGED outsideDev
    \/ \E s \in DevServers, via \in Vias : StopSendTerm(s, via) /\ UNCHANGED outsideDev
    \/ \E s \in DevServers, via \in Vias : StopForceKill(s, via) /\ UNCHANGED outsideDev
    \/ \E s \in DevServers, via \in Vias : StopCleanup(s, via) /\ UNCHANGED outsideDev

\* The orchestrator, with the port reservations its servers take.
DevStart == PortsInit /\ DevInit /\ IdleOutsideDev

DevSpec == DevStart /\ [][DevNext]_vars

\* What the event loop is bound to do for instance s once it can: settle the
\* detection and each tryReservePort, deliver the error of a failed spawn,
\* fire an armed ready timeout, and take the steps of a stop() (the import,
\* the five-second timer, cleanup). When a child prints, answers a health
\* probe or exits is up to the child.
DevFairness ==
    \A s \in DevServers :
        /\ WF_vars(\E found \in BOOLEAN : DetectFramework(s, found) /\ UNCHANGED outsideDev)
        /\ WF_vars(\E spawned \in BOOLEAN : ReservePort(s, spawned) /\ UNCHANGED outsideDev)
        /\ WF_vars(ProcessError(s) /\ UNCHANGED outsideDev)
        /\ WF_vars(ReadyTimeout(s) /\ UNCHANGED outsideDev)
        /\ \A via \in Vias :
              /\ WF_vars(StopSendTerm(s, via) /\ UNCHANGED outsideDev)
              /\ WF_vars(StopForceKill(s, via) /\ UNCHANGED outsideDev)
              /\ WF_vars(StopCleanup(s, via) /\ UNCHANGED outsideDev)

\* The orchestrator with its timers and callbacks eventually running.
DevLiveSpec == DevStart /\ [][DevNext]_vars /\ DevFairness

ProbeNext ==
    \/ \E c \in ProbeCalls, id \in PortIdInputs :
            AllocatePort(c, ProbeProject, id) /\ UNCHANGED outsideProbe
    \/ \E c \in ProbeCalls : ProbeRefused(c) /\ UNCHANGED outsideProbe
    \/ \E c \in ProbeCalls : ProbeClosed(c) /\ UNCHANGED outsideProbe
    \/ \E port \in AllPorts : ProbeExternalListen(port) /\ UNCHANGED outsideProbe
    \/ \E port \in AllPorts : ProbeExternalClose(port) /\ UNCHANGED outsideProbe

\* allocatePort called directly, with other programs taking and leaving ports.
ProbeStart == PortsInit /\ DevInit /\ IdleOutsideDev

ProbeSpec == ProbeStart /\ [][ProbeNext]_vars

PfvNext == ApplyPortForVariant /\ UNCHANGED outsidePfv

\* portForVariant applied once to each key and id.
PfvStart == MetaIdle /\ PortsInit /\ DevInit /\ ProbeInit /\ PfvInit /\ WtInit /\ GitIdle /\ PatchIdle /\ RegIdle

PfvSpec == PfvStart /\ [][PfvNext]_vars

WtNext ==
    \/ \E base \in BaseOutcomes, description \in Descriptions :
            CreateWorktree(base, description) /\ UNCHANGED outsideWt
    \/ AllocateSettled /\ UNCHANGED outsideWt
    \/ \E ok \in BOOLEAN : GitWorktreeAdd(ok) /\ UNCHANGED outsideWt
    \/ \E ok \in BOOLEAN : UpdateCreated(ok) /\ UNCHANGED outsideWt
    \/ UpdateSettled /\ UNCHANGED outsideWt
    \/ MarkFailed /\ UNCHANGED outsideWt
    \/ MarkSettled /\ UNCHANGED outsideWt
    \/ RemoveAndRaise /\ UNCHANGED outsideWt
    \/ \E c \in Calls, o \in Ops : Invoke(c, o) /\ UNCHANGED outsideMeta
    \/ \E c \in Calls : Read(c) /\ UNCHANGED outsideMeta
    \/ \E c \in Calls : InitRead(c) /\ UNCHANGED outsideMeta
    \/ \E c \in Calls :
            WriteBegin(c, "initWrite", "initRename") /\ UNCHANGED outsideMeta
    \/ \E c \in Calls : InitRename(c) /\ UNCHANGED outsideMeta
    \/ \E c \in Calls :
            WriteBegin(c, "write", "rename") /\ UNCHANGED outsideMeta
    \/ \E c \in Calls : Rename(c) /\ UNCHANGED outsideMeta
    \/ \E c \in Calls : Rmdir(c) /\ UNCHANGED outsideMeta

\* One createWorktree call, with the calls other callers make on the
\* project's record meanwhile.
WtStart == MetaInit /\ IdleOutsideMeta

WtSpec == WtStart /\ [][WtNext]_vars

\* The records a project holds before removeWorktree or mergeVariant is
\* called: none, a variant without a branch, a variant createWorktree made.
GitInitialVariants ==
    InitialVariants \cup
    {<<[Variant(PadStart(StringOf(1), 3), "created", 0) EXCEPT
            !.branch = BranchName(PadStart(StringOf(1), 3), <<"n">>)]>>}

GitInit ==
    /\ file \in {NoFile} \cup {FileOf(vs) : vs \in GitInitialVariants}
    /\ file0 = file
    /\ tmp = [c \in Calls |-> NoFile]
    /\ variantDirs = {file.variants[k].id : k \in 1 .. Len(file.variants)}
    /\ activeLocks = [i \in Instances |-> NoLock]
    /\ pc = [c \in Calls |-> "idle"]
    /\ op = [c \in Calls |-> NoOp]
    /\ md = [c \in Calls |-> NullMd]
    /\ awaited = [c \in Calls |-> NoLock]
    /\ waitq = <<>>
    /\ ret = [c \in Calls |-> <<>>]
    /\ returned = <<>>
    /\ overlapped = FALSE
    /\ burst = TRUE
    /\ branches = {file.variants[k].branch : k \in 1 .. Len(file.variants)} \ {NoBranch}
    /\ rw = [via \in RwVias |-> NoRemoval]
    /\ mg = NoMerge
    /\ target = "untouched"

GitNext ==
    \/ \E id \in InputIds : RemoveWorktree(id) /\ UNCHANGED outsideGit
    \/ \E via \in RwVias : RwReadMetadata(via) /\ UNCHANGED outsideGit
    \/ \E via \in RwVias, ok \in BOOLEAN :
            RwWorktreeRemove(via, ok) /\ UNCHANGED outsideGit
    \/ \E via \in RwVias, ok \in BOOLEAN :
            RwBranchDelete(via, ok) /\ UNCHANGED outsideGit
    \/ \E via \in RwVias, ok \in BOOLEAN : RwPrune(via, ok) /\ UNCHANGED outsideGit
    \/ \E via \in RwVias : RwSettled(via) /\ UNCHANGED outsideGit
    \/ RwRaisedInMerge /\ UNCHANGED outsideGit
    \/ \E id \in InputIds, strategy \in MergeStrategies :
            MergeVariant(id, strategy) /\ UNCHANGED outsideGit
    \/ MgReadMetadata /\ UNCHANGED outsideGit
    \/ \E ok \in BOOLEAN : MgFetch(ok) /\ UNCHANGED outsideGit
    \/ \E ok \in BOOLEAN : MgCheckout(ok) /\ UNCHANGED outsideGit
    \/ \E ok \in BOOLEAN : MgMerge(ok) /\ UNCHANGED outsideGit
    \/ \E ok \in BOOLEAN : MgCommit(ok) /\ UNCHANGED outsideGit
    \/ \E c \in Calls : Read(c) /\ UNCHANGED outsideMeta
    \/ \E c \in Calls :
            WriteBegin(c, "write", "rename") /\ UNCHANGED outsideMeta
    \/ \E c \in Calls : Rename(c) /\ UNCHANGED outsideMeta
    \/ \E c \in Calls : Rmdir(c) /\ UNCHANGED outsideMeta

\* removeWorktree and mergeVariant called one after the other on a project.
GitStart ==
    GitInit /\ PortsInit /\ DevInit /\ ProbeInit /\ PfvIdle /\ WtInit /\ PatchIdle /\ RegIdle

GitSpec == GitStart /\ [][GitNext]_vars

\* The records of a project whose ids have come near the end of the three
\* digits: the highest id is 998, or 999.
HighVariants ==
    {<<Variant(StringOf(998), "created", 0)>>,
     <<Variant(StringOf(998), "created", 0), Variant(StringOf(999), "created", 0)>>}

AllocInit ==
    /\ file \in {NoFile} \cup {FileOf(vs) : vs \in HighVariants}
    /\ file0 = file
    /\ tmp = [c \in Calls |-> NoFile]
    /\ variantDirs = {file.variants[k].id : k \in 1 .. Len(file.variants)}
    /\ activeLocks = [i \in Instances |-> NoLock]
    /\ pc = [c \in Calls |-> "idle"]
    /\ op = [c \in Calls |-> NoOp]
    /\ md = [c \in Calls |-> NullMd]
    /\ awaited = [c \in Calls |-> NoLock]
    /\ waitq = <<>>
    /\ ret = [c \in Calls |-> <<>>]
    /\ returned = <<>>
    /\ overlapped = FALSE
    /\ burst = TRUE

\* allocateVariantId calls on one DirectoryManager.
AllocNext ==
    \/ \E c \in Calls :
            Invoke(c, WorktreeOp("allocateVariantId", <<>>, "none"))
                /\ UNCHANGED outsideMeta
    \/ \E c \in Calls : Read(c) /\ UNCHANGED outsideMeta
    \/ \E c \in Calls : InitRead(c) /\ UNCHANGED outsideMeta
    \/ \E c \in Calls :
            WriteBegin(c, "initWrite", "initRename") /\ UNCHANGED outsideMeta
    \/ \E c \in Calls : InitRename(c) /\ UNCHANGED outsideMeta
    \/ \E c \in Calls :
            WriteBegin(c, "write", "rename") /\ UNCHANGED outsideMeta
    \/ \E c \in Calls : Rename(c) /\ UNCHANGED outsideMeta

AllocStart == AllocInit /\ IdleOutsideMeta

AllocSpec == AllocStart /\ [][AllocNext]_vars

PatchNext ==
    \/ \E id \in InputIds : ApplyPatch(id) /\ UNCHANGED outsidePatch
    \/ \E ok \in BOOLEAN : ApWriteFile(ok) /\ UNCHANGED outsidePatch
    \/ \E outcome \in ApplyOutcomes : ApThreeWay(outcome) /\ UNCHANGED outsidePatch
    \/ \E outcome \in ApplyOutcomes : ApPlain(outcome) /\ UNCHANGED outsidePatch
    \/ \E ok \in BOOLEAN : ApAdd(ok) /\ UNCHANGED outsidePatch
    \/ \E ok \in BOOLEAN : ApStatus(ok) /\ UNCHANGED outsidePatch
    \/ \E ok \in BOOLEAN : ApCommit(ok) /\ UNCHANGED outsidePatch
    \/ ApUpdate /\ UNCHANGED outsidePatch
    \/ ApUpdateSettled /\ UNCHANGED outsidePatch
    \/ ApFinally /\ UNCHANGED outsidePatch
    \/ \E c \in Calls : Read(c) /\ UNCHANGED outsideMeta
    \/ \E c \in Calls :
            WriteBegin(c, "write", "rename") /\ UNCHANGED outsideMeta
    \/ \E c \in Calls : Rename(c) /\ UNCHANGED outsideMeta

\* One applyPatchToWorktree call on a variant of the project.
PatchStart ==
    MetaInit /\ PatchInit /\ PortsInit /\ DevInit /\ ProbeInit /\ PfvIdle
        /\ WtInit /\ GitIdle /\ RegIdle

PatchSpec == PatchStart /\ [][PatchNext]_vars

RegNext ==
    \/ \E c \in RegCalls, o \in RegOps : RegInvoke(c, o) /\ UNCHANGED outsideReg
    \/ \E c \in RegCalls, ok \in BOOLEAN : RegMkdir(c, ok) /\ UNCHANGED outsideReg
    \/ \E c \in RegCalls : RegLock(c) /\ UNCHANGED outsideReg
    \/ \E c \in RegCalls, ok \in BOOLEAN : RegFn(c, ok) /\ UNCHANGED outsideReg
    \/ OtherLocks /\ UNCHANGED outsideReg
    \/ OtherUnlocks /\ UNCHANGED outsideReg

\* The file-system calls and lockfile.lock of a call settle.
RegFairness ==
    \A c \in RegCalls :
        /\ WF_vars(\E ok \in BOOLEAN : RegMkdir(c, ok) /\ UNCHANGED outsideReg)
        /\ WF_vars(RegLock(c) /\ UNCHANGED outsideReg)
        /\ WF_vars(\E ok \in BOOLEAN : RegFn(c, ok) /\ UNCHANGED outsideReg)

RegStart ==
    RegInit /\ MetaIdle /\ PortsInit /\ DevInit /\ ProbeInit /\ PfvIdle /\ WtInit
        /\ GitIdle /\ PatchIdle

\* The registry of one project, used by one process, with its file-system
\* calls eventually settling.
RegLiveSpec == RegStart /\ [][RegNext]_vars /\ RegFairness

\* ------------------------------------------------- metadata: the claims

\* The calls that were issued.
Issued == {c \in Calls : pc[c] # "idle"}

\* Every issued call has returned or raised.
AllSettled == \A c \in Issued : pc[c] \in {"done", "failed"}

\* The largest numeric id of the record before the first call.
InitialMax == MaxOf(ExistingIds(file0.variants))

\* C1: N >= 2 allocateVariantId calls issued together on one instance return
\* pairwise distinct ids, exactly InitialMax+1 .. InitialMax+N, zero-padded.
C1_ConcurrentAllocationsDistinct ==
    ( /\ burst
      /\ Cardinality(Issued) >= 2
      /\ \A c \in Issued :
            /\ pc[c] = "done"
            /\ op[c].name = "allocateVariantId"
            /\ op[c].inst = FirstInstance )
    => {ret[c] : c \in Issued} =
         {PadStart(StringOf(InitialMax + k), 3) : k \in 1 .. Cardinality(Issued)}

\* One operation applied alone to the metadata file.
SerialStep(f, o) ==
    IF ~f.exists
    THEN IF o.name \in {"addVariant", "allocateVariantId"}
         THEN FileOf(Modified(o, <<>>))
         ELSE f
    ELSE IF Throws(o, f.variants) THEN f ELSE FileOf(Modified(o, f.variants))

RECURSIVE SerialRun(_, _)
\* The operations of os applied one at a time, in order.
SerialRun(f, os) ==
    IF os = <<>> THEN f ELSE SerialRun(SerialStep(f, Head(os)), Tail(os))

\* The orders in which the calls of S can be applied one at a time.
Orders(S) ==
    {p \in [1 .. Cardinality(S) -> S] :
        \A j, k \in 1 .. Cardinality(S) : j # k => p[j] # p[k]}

\* C2: after concurrent addVariant, updateVariant and removeVariant calls on
\* one instance have completed, the persisted record is the result of applying
\* them one at a time in some order.
C2_NoLostUpdate ==
    ( /\ Cardinality(Issued) >= 2
      /\ AllSettled
      /\ \A c \in Issued :
            /\ op[c].name \in {"addVariant", "updateVariant", "removeVariant"}
            /\ op[c].inst = FirstInstance )
    => \E p \in Orders(Issued) :
          file = SerialRun(file0, [k \in 1 .. Cardinality(Issued) |-> op[p[k]]])

\* C3: within one instance at most one metadata mutation is inside its
\* read-modify-write section at any time.
C3_OneMutationInSection ==
    \A i \in Instances :
        Cardinality({c \in Calls : InSection(c) /\ op[c].inst = i}) <= 1

\* C4: mutations made by two different process instances are never inside
\* their read-modify-write sections at the same time.
C4_InstancesNeverInterleave ==
    \A c, d \in Calls :
        (InSection(c) /\ InSection(d)) => op[c].inst = op[d].inst

\* Call c is inside writeMetadata, between the start of writeFile and the
\* rename.
InWriteMetadata(c) == pc[c] \in {"initRename", "rename"}

\* C5: the metadata file only ever changes from one whole content to the whole
\* new content of a call inside writeMetadata; so a process that dies at any
\* point leaves the whole previous content or the whole new content.
C5_WholeOldOrWholeNew ==
    [][ \/ file' = file
        \/ \E c \in Calls :
              /\ InWriteMetadata(c)
              /\ file' = FileOf(md[c].variants) ]_vars

\* A process died between the start of writeFile and the rename, leaving a
\* truncated temporary file behind, and the metadata file is there.
C5_Witness ==
    \E c \in Calls :
        /\ pc[c] = "crashed"
        /\ tmp[c].exists /\ ~tmp[c].complete
        /\ file.exists

\* C6: over a sequence of allocateVariantId and removeVariant calls, made one
\* after the other, the ids allocateVariantId returns are strictly increasing.
C6_AllocatedIdsIncrease ==
    ( /\ ~overlapped
      /\ \A c \in Issued : op[c].name \in {"allocateVariantId", "removeVariant"} )
    => \A j, k \in 1 .. Len(returned) :
          j < k => ParseInt(returned[j]) < ParseInt(returned[k])

\* C7: after any sequence of calls, made one after the other, no two entries
\* of the record's variants have the same id.
C7_OneRecordPerId ==
    ~overlapped =>
        \A j, k \in 1 .. Len(file.variants) :
            j # k => file.variants[j].id # file.variants[k].id

\* ------------------------------------------- orchestrator: the claims

\* C8: at any time at most one live dev-server child process exists for a
\* (projectKey, variantId).
C8_OneLiveChildPerKey ==
    \A k \in VariantIds :
        Cardinality({s \in DevServers : srv[s].key = k /\ Live(s)}) <= 1

\* C9: a startServer call for a key that is tracked returns the tracked
\* server's current info, constructs no DevServer and changes no server, so
\* it spawns no process; also while the first start is still in flight.
C9_IdempotentStart ==
    [][ ( /\ ncalls' # ncalls
          /\ lastCall'.op = "startServer"
          /\ servers[lastCall'.key] # 0 )
        => /\ lastCall'.info = GetInfo(servers[lastCall'.key])
           /\ nsrv' = nsrv
           /\ srv' = srv
           /\ servers' = servers ]_vars

\* A startServer call returned the info of a server whose start was still in
\* flight, with its child already spawned.
C9_Witness ==
    /\ lastCall.op = "startServer"
    /\ lastCall.info.status = "starting"
    /\ \E s \in DevServers :
          srv[s].key = lastCall.key /\ srv[s].startPc = "awaitReady" /\ Live(s)

\* ------------------------------------------- port allocator: the claims

\* C10: any two reservations that were returned and not released hold
\* different ports.
C10_ReservationsHoldDifferentPorts ==
    \A r, q \in Reservations :
        (r # q /\ Holds(r) /\ Holds(q)) => resv[r].port # resv[q].port

\* Two unreleased reservations for the same (projectKey, variantId).
C10_Witness ==
    \E r, q \in Reservations :
        /\ r # q /\ Holds(r) /\ Holds(q)
        /\ resv[r].key = resv[q].key /\ resv[r].id = resv[q].id

\* Call r held the preferred port of its (projectKey, variantId) and its
\* release has completed.
ReleasedPreferred(r) ==
    /\ resv[r].pc = "released"
    /\ resv[r].port = portForVariant(resv[r].key, resv[r].id)

\* Port `port` is taken by somebody else than call q: another program, or a
\* reservation that is still held.
TakenByOther(q, port) ==
    \/ port \in external
    \/ \E h \in Reservations \ {q} : Holds(h) /\ resv[h].port = port

\* C11: once the release of a reservation on the preferred port has
\* completed, an allocatePortWithReservation call for the same (projectKey,
\* variantId) gets the preferred port, unless somebody else has taken it
\* since; this also after connections were accepted on the listener.
C11_ReleasedPortIsFree ==
    [][ \A q \in Reservations :
          ( /\ resv[q].pc = "preferred"
            /\ resv'[q].pc # "preferred"
            /\ \E r \in Reservations :
                  /\ ReleasedPreferred(r)
                  /\ resv[r].key = resv[q].key /\ resv[r].id = resv[q].id
            /\ ~TakenByOther(q, resv[q].port) )
          => /\ resv'[q].pc = "held"
             /\ resv'[q].port = portForVariant(resv[q].key, resv[q].id)
             /\ resv'[q].port \in listening' ]_vars

\* A reservation on the preferred port was released while a connection was
\* open on its listener, and a later call for the same (projectKey,
\* variantId) holds the preferred port.
C11_Witness ==
    \E r, q \in Reservations :
        /\ r < q
        /\ ReleasedPreferred(r)
        /\ resv[r].conns
        /\ Holds(q)
        /\ resv[q].key = resv[r].key /\ resv[q].id = resv[r].id
        /\ resv[q].port = resv[r].port

\* ------------------------------------------------- allocatePort: the claims

\* The ports base+1 .. base+RANGE_SIZE-1 of a project's block.
Block(projectKey) ==
    projectBasePort(projectKey) + 1 .. projectBasePort(projectKey) + RANGE_SIZE - 1

\* The ports of call c's block on which nothing listens, the probing server
\* of the call itself aside.
Available(c) ==
    LET own == IF alloc[c].pc = "closing" THEN {alloc[c].port} ELSE {} IN
    Block(alloc[c].key) \ (external \cup (listening \ own))

\* The lowest-numbered port of a non-empty set.
Lowest(ports) == CHOOSE m \in ports : \A n \in ports : m <= n

IsNumeric(id) == id # <<>> /\ \A k \in 1 .. Len(id) : id[k] \in Digits

\* C13: portForVariant(projectKey, variantId) is projectBasePort(projectKey)
\* + n for an id of numeric value n in 1 .. RANGE_SIZE-1 and raises the
\* invalid-variant-id error for every other id: n < 1, n >= RANGE_SIZE, or an
\* id that is not numeric.
C13_PortForVariant ==
    pfv.pc \in {"returned", "raised"} =>
        IF IsNumeric(pfv.id) /\ ParseInt(pfv.id) \in 1 .. RANGE_SIZE - 1
        THEN /\ pfv.pc = "returned"
             /\ pfv.port = projectBasePort(pfv.key) + ParseInt(pfv.id)
        ELSE pfv.pc = "raised"

\* -------------------------------------- orchestrator: failing starts

\* The start of instance s was rejected with error err.
Rejected(s, err) == srv[s].startPc = "rejected" /\ srv[s].error = err

\* C14: a startServer for a directory no framework adapter matches fails with
\* the no-supported-framework error; the attempt has made no
\* allocatePortWithReservation call and has spawned no process, and when it
\* fails no server is tracked for its key.
C14_NoFrameworkReservesNothing ==
    /\ [](\A s \in DevServers :
            Rejected(s, "noFramework") =>
                /\ resv[s].pc = "unused"
                /\ srv[s].proc = "none"
                /\ srv[s].port = 0)
    /\ [][ \A s \in DevServers :
              (srv[s].startPc = "detect" /\ srv'[s].error = "noFramework")
              => /\ Rejected(s, "noFramework")'
                 /\ servers'[srv[s].key] = 0
                 /\ listening' = listening ]_vars

\* A start was rejected because no framework was detected.
C14_Witness == \E s \in DevServers : Rejected(s, "noFramework")

\* C15: whenever a start attempt has ended in failure, the port reservation
\* taken for it is released and the ready timeout and the health-check
\* interval are cleared.
C15_FailedStartReleasesAll ==
    \A s \in DevServers :
        srv[s].startPc = "rejected" =>
            /\ ~Holds(s)
            /\ srv[s].port = 0
            /\ ~srv[s].readyTimeout
            /\ ~srv[s].healthCheck

\* ------------------------------------------- orchestrator: stopping

\* The child of instance s has exited, with an exit code or by a signal.
Exited(s) == srv[s].proc \in {"exitedCode", "exitedSignal"}

\* C16: a stopServer on a tracked server whose child has exited completes,
\* and when it returns the server's reservation is released and no server is
\* tracked for its key.
C16_StopAfterExitCompletes ==
    /\ \A s \in DevServers :
          (Stopping(s, "stopServer") /\ Exited(s))
              ~> (stopPc[s]["stopServer"] = "done")
    /\ [][ \A s \in DevServers :
              ( /\ Exited(s)
                /\ stopPc[s]["stopServer"] # "done"
                /\ stopPc'[s]["stopServer"] = "done" )
              => /\ ~Holds(s)'
                 /\ srv'[s].port = 0
                 /\ srv[s].port \notin listening'
                 /\ servers'[srv[s].key] = 0 ]_vars

\* stopServer was called on a tracked server that had failed because its
\* child, killed by a signal, had exited unexpectedly, and that stop has
\* returned.
C16_Witness ==
    /\ lastCall.op = "stopServer"
    /\ lastCall.info.status = "failed"
    /\ \E s \in DevServers :
          /\ srv[s].key = lastCall.key
          /\ srv[s].proc = "exitedSignal"
          /\ stopPc[s]["stopServer"] = "done"

\* The stop() that stopAll started on instance s is the last to return: the
\* step in which stopAll clears the map and returns.
StopAllReturns(s) ==
    /\ stopPc[s]["stopAll"] = "cleanup"
    /\ stopPc'[s]["stopAll"] = "done"
    /\ \A t \in DevServers \ {s} : ~Stopping(t, "stopAll")

\* C17: when stopAll returns, every server it stopped has status stopped, no
\* live child and no reservation, and no server is tracked.
C17_StopAllStopsEverything ==
    [][ \A s \in DevServers :
          StopAllReturns(s) =>
              /\ \A k \in VariantIds : servers'[k] = 0
              /\ \A t \in DevServers :
                    stopPc'[t]["stopAll"] = "done" =>
                        /\ srv'[t].status = "stopped"
                        /\ ~Live(t)'
                        /\ ~Holds(t)' ]_vars

\* The start() of instance s has neither returned nor raised.
StartInFlight(s) == srv[s].startPc \in {"detect", "reserve", "awaitReady"}

\* Instance s has no live child, holds no reservation, has no armed timer
\* and a terminal status.
Clean(s) ==
    /\ ~Live(s)
    /\ ~Holds(s)
    /\ ~srv[s].readyTimeout
    /\ ~srv[s].healthCheck
    /\ srv[s].status \in {"stopped", "failed"}

\* C18: when stop() was called on a server (by stopServer or stopAll) while
\* its start was in flight, the server comes to have no live child, no held
\* reservation, no armed timer and a terminal status.
C18_StopDuringStartConverges ==
    \A s \in DevServers :
        (srv[s].status = "stopped" /\ StartInFlight(s)) ~> Clean(s)

\* C19: every start that startServer awaits eventually returns the server
\* info or raises.
C19_StartSettles ==
    \A s \in DevServers :
        StartInFlight(s) ~> (srv[s].startPc \in {"resolved", "rejected"})

\* ------------------------------------------------ createWorktree: the claims

\* The record of the id is in metadata.json with status 'failed' and a message.
HasFailedRecord(id) ==
    /\ file.exists
    /\ \E k \in 1 .. Len(file.variants) :
            /\ file.variants[k].id = id
            /\ file.variants[k].status = "failed"
            /\ file.variants[k].error # "none"

\* createWorktree raises, having been given an id.
RaisesAfterAllocation == wt.pc # "raised" /\ wt'.pc = "raised" /\ wt'.id # <<>>

\* C20: if a step of createWorktree fails after the id was allocated, then at
\* the moment createWorktree raises, the variant's record is still there, with
\* status 'failed' and the error's message.
C20_FailedRecordKept ==
    [][RaisesAfterAllocation => HasFailedRecord(wt.id)']_vars

\* The first record of the id has status 'created' and the branch name.
HasCreatedRecord(id, branch) ==
    LET k == FindIndex(file.variants, id) IN
    /\ file.exists
    /\ k # 0
    /\ file.variants[k].status = "created"
    /\ file.variants[k].branch = branch

\* The slugs of the descriptions, worked out by hand from the description:
\* lower case, characters other than letters, digits, '-', '_' and white space
\* dropped, trimmed, white space to '-', runs of '-' to one.
ExpectedSlug(description) ==
    IF description = <<"N", "!", " ", "-", "H">> THEN <<"n", "-", "h">> ELSE <<>>

\* allocateVariantId returns to createWorktree.
IdReceived == wt.pc = "allocating" /\ wt'.pc = "git"

\* The write of createWorktree's updateVariant(created) lands.
CreatedWritten ==
    wt.pc = "updating" /\ pc[wt.call] = "rename" /\ pc'[wt.call] = "done"

\* C21: a createWorktree that succeeds returns the id allocateVariantId gave
\* it and the branch ui-var/<id>-<slug> (ui-var/<id> for an empty slug), and
\* its write leaves the record of that id with status 'created' and that
\* branch name.
C21_CreatedAsAllocated ==
    /\ [][IdReceived => wt'.id = ret[wt.call] /\ wt'.id # <<>>]_vars
    /\ [][wt.id # <<>> => wt'.id = wt.id]_vars
    /\ [][CreatedWritten => HasCreatedRecord(wt.id, wt.branch)']_vars
    /\ [](wt.pc = "returned" =>
            /\ pc[wt.call] = "done"
            /\ op[wt.call] = WorktreeOp("updateVariant", wt.id, "created")
            /\ wt.branch.prefix = "ui-var/"
            /\ wt.branch.id = wt.id
            /\ wt.branch.slug = ExpectedSlug(wt.description)
            /\ wt.branch.sep = IF ExpectedSlug(wt.description) = <<>> THEN "" ELSE "-")

\* createWorktree has returned a branch with a slug and its record is there.
C21_Witness ==
    /\ wt.pc = "returned"
    /\ wt.branch.slug # <<>>
    /\ HasCreatedRecord(wt.id, wt.branch)

\* createWorktree learns that baseRef does not resolve after the fetch either.
BaseNotFound == wt.pc = "idle" /\ wt'.base = "notFound"

\* C31: when baseRef does not resolve, after one fetch and one more attempt,
\* createWorktree raises the base-reference-not-found error; it has called
\* neither allocateVariantId nor any other operation on the record, holds no
\* id, and its step leaves metadata.json and the locks as they were.
C31_UnresolvedBaseAborts ==
    /\ [][BaseNotFound =>
            /\ wt'.pc = "raised"
            /\ wt'.error = "baseRef"
            /\ wt'.fetches = 1 /\ wt'.tries = 2
            /\ wt'.id = <<>> /\ wt'.call = NoLock
            /\ UNCHANGED metaVars]_vars
    /\ [](wt.error = "baseRef" => wt.pc = "raised" /\ wt.id = <<>> /\ wt.call = NoLock)

\* createWorktree has raised base-reference-not-found after its fetch, while
\* the project's record holds variants.
C31_Witness ==
    /\ wt.pc = "raised" /\ wt.error = "baseRef" /\ wt.fetches = 1 /\ wt.tries = 2
    /\ file.exists /\ file.variants # <<>>

\* ------------------------------ removeWorktree and mergeVariant: the claims

\* metadata.json holds a record of the id.
HasRecord(id) == file.exists /\ FindIndex(file.variants, id) # 0

\* The removeWorktree call returns or raises.
RemovalEnds(via) ==
    /\ rw[via].pc \notin {"idle", "returned", "raised"}
    /\ rw'[via].pc \in {"returned", "raised"}

\* C22: removeWorktree(variantId) ends, whichever of its git steps (worktree
\* removal, branch deletion, prune) failed, with no record of the variant in
\* the metadata.
C22_RemovalClearsRecord ==
    [][\A via \in RwVias : RemovalEnds(via) => ~HasRecord(rw[via].id)']_vars

\* mergeVariant raises.
MergeRaises == mg.pc # "raised" /\ mg'.pc = "raised"

\* C24: when mergeVariant raises, with any strategy, the variant's record,
\* branch and worktree are as they were when it was called; they are removed
\* only after the merge succeeded.
C24_FailedMergeKeepsVariant ==
    /\ [][MergeRaises => (Kept(mg.id, mg.branch) = mg.before)']_vars
    /\ [][(mg.pc \notin {"idle", "returned", "raised"}
            /\ KeptOf(file', branches', variantDirs', mg.id, mg.branch)
                    # Kept(mg.id, mg.branch))
          => target = "merged"]_vars

\* ------------------------------------------------ removeVariant: the claims

\* The entries of the list whose id is not `id`, in order.
Others(variants, id) == SelectSeq(variants, LAMBDA v : v.id # id)

\* Call c, a removeVariant, replaces the metadata file.
RemoveWrites(c) ==
    op[c].name = "removeVariant" /\ pc[c] = "rename" /\ pc'[c] = "rmdir"

\* Call c, a removeVariant, returns having found no metadata file.
RemoveFindsNoFile(c) ==
    op[c].name = "removeVariant" /\ pc[c] = "read" /\ pc'[c] = "done"

\* C23: removeVariant raises no error; called (not overlapping another call)
\* when there is no metadata file it changes nothing, on an id that is not in
\* the record it leaves the variants list as it was, and on an id that is, it
\* leaves the list without that id and every other entry as it was.
C23_RemoveVariantFrame ==
    /\ [](\A c \in Calls : op[c].name = "removeVariant" => pc[c] # "failed")
    /\ [][\A c \in Calls :
            RemoveFindsNoFile(c) => ~file.exists /\ file' = file]_vars
    /\ [][\A c \in Calls :
            (RemoveWrites(c) /\ ~overlapped) =>
                /\ file'.exists /\ file'.complete
                /\ \A k \in 1 .. Len(file'.variants) :
                        file'.variants[k].id # op[c].id
                /\ Others(file'.variants, op[c].id) = Others(file.variants, op[c].id)
                /\ FindIndex(file.variants, op[c].id) = 0 =>
                        file'.variants = file.variants]_vars

\* A removeVariant, made when no other call was in flight, has removed an
\* entry and left another.
C23_Witness ==
    \E c \in Calls :
        /\ op[c].name = "removeVariant"
        /\ pc[c] = "done"
        /\ ~overlapped
        /\ file.exists
        /\ file.variants # <<>>
        /\ FindIndex(file.variants, op[c].id) = 0
        /\ \E d \in Calls :
                d < c /\ op[d].name = "addVariant" /\ op[d].id = op[c].id

\* ----------------------------------------------------- withLock: the claims

\* Call d enters fn, its read-modify-write section.
EntersSection(d) == pc[d] \in {"idle", "waiting"} /\ pc'[d] = "read"

\* Call d replaces the metadata file with its modified record.
TakesEffect(d) == pc[d] = "rename" /\ pc'[d] \in {"done", "rmdir"}

\* Call c has modified its copy of the record and not yet written it.
EffectPending(c) == pc[c] \in {"write", "rename"}

\* Calls c and d were made on the same instance, c first.
MadeBefore(c, d) == c < d /\ pc[d] # "idle" /\ op[c].inst = op[d].inst

\* C25: the metadata mutations made on one instance enter their sections, and
\* take effect on the record, in the order in which the calls were made.
C25_SectionsInArrivalOrder ==
    /\ [][\A d \in Calls : EntersSection(d) =>
            \A c \in Calls :
                (c < d /\ op'[c].inst = op'[d].inst) => pc'[c] # "waiting"]_vars
    /\ [][\A d \in Calls : TakesEffect(d) =>
            \A c \in Calls : MadeBefore(c, d) => ~EffectPending(c)]_vars

\* ------------------------------------------------- DevServer: the statuses

\* C26: once the status of a DevServer instance is stopped or failed, no later
\* event (a stop call, the ready timeout, the child's exit or error, a
\* readiness signal) changes it.
C26_TerminalStatusStays ==
    [][\A s \in DevServers :
        srv[s].status \in {"stopped", "failed"} =>
            srv'[s].status = srv[s].status]_vars

TermSent(s, via) == stopPc[s][via] = "import" /\ stopPc'[s][via] = "term"

\* The wait of the stop() of instance s ends: the child's exit event, or the
\* timer's force-kill.
WaitEnds(s, via) == stopPc[s][via] = "term" /\ stopPc'[s][via] = "cleanup"

\* The stop() of instance s returns.
StopReturns(s, via) == stopPc[s][via] = "cleanup" /\ stopPc'[s][via] = "done"

\* C28: a stop sends its signals with the status already stopped; it
\* force-kills only after the termination signal, when the child has not
\* exited by the end of the window; and when it returns the instance's port
\* reservation has been released.
C28_StopOrder ==
    /\ [][\A s \in DevServers, via \in Vias :
            TermSent(s, via) => srv[s].status = "stopped"]_vars
    /\ [][\A s \in DevServers, via \in Vias :
            WaitEnds(s, via) => Live(s)]_vars
    /\ [][\A s \in DevServers, via \in Vias :
            StopReturns(s, via) => srv'[s].port = 0 /\ resv'[s].pc # "held"]_vars

\* ------------------------------------------ the status in the variant record

\* The status the variant's record gets for a status of the dev server.
RecordedFor(status) == IF status = "ready" THEN "running" ELSE status

\* C29: whenever a dev server becomes ready, failed (start timeout, spawn
\* error, unexpected exit) or stopped, the status of the variant's record
\* eventually becomes the corresponding one (running, failed, stopped).
C29_StatusMirrored ==
    \A s \in DevServers :
        \A status \in {"ready", "failed", "stopped"} :
            (srv[s].status = status) ~>
                (srv[s].recorded = RecordedFor(status) \/ srv[s].status # status)

\* ------------------------------------------------ withLock: the bounded wait

\* C30: a call waiting for the metadata lock does not wait forever: also when
\* the holder never releases, the call stops waiting (it gives up with a
\* lock-timeout error, or takes over the lock).
C30_LockWaitBounded ==
    \A c \in Calls : (pc[c] = "waiting") ~> (pc[c] # "waiting")

\* ------------------------------------------- allocateVariantId: the claims

\* Call c is an allocateVariantId that has computed its id and has not yet
\* stored the record holding the placeholder.
Computed(c) == op[c].name = "allocateVariantId" /\ pc[c] \in {"write", "rename"}

\* The id call c computed.
ComputedId(c) == md[c].variants[Len(md[c].variants)].id

\* allocateVariantId call c stores its record and returns.
AllocationReturns(c) ==
    op[c].name = "allocateVariantId" /\ pc[c] = "rename" /\ pc'[c] = "done"

\* The entries of metadata.json with the id.
EntriesOf(f, id) == SelectSeq(f.variants, LAMBDA v : v.id = id)

\* C32: when allocateVariantId returns id X, metadata.json holds exactly one
\* entry with id X, and its status is 'allocating'; and between the moment a
\* call computes X and the moment it stores the placeholder, no other call
\* computes X.
C32_PlaceholderReservesId ==
    /\ [][\A c \in Calls : AllocationReturns(c) =>
            /\ file'.exists /\ file'.complete
            /\ Len(EntriesOf(file', ret'[c])) = 1
            /\ EntriesOf(file', ret'[c])[1].status = "allocating"]_vars
    /\ [](\A c, d \in Calls :
            c # d /\ Computed(c) /\ Computed(d) => ComputedId(c) # ComputedId(d))

\* C33: every id allocateVariantId returns is three decimal digits, also when
\* the highest id of the record is 999.
C33_IdsAreThreeDigits ==
    [][\A c \in Calls : AllocationReturns(c) => IsThreeDigits(ret'[c])]_vars

\* --------------------------------------------------- updateVariant: not found

\* The readMetadata of updateVariant call c is about to find no file, or a
\* record without the id.
NotFoundCase(c) ==
    /\ op[c].name = "updateVariant"
    /\ pc[c] = "read"
    /\ \/ ~file.exists
       \/ file.complete /\ FindIndex(file.variants, op[c].id) = 0

\* C34: updateVariant on an id the record does not hold, or without a
\* metadata file, raises; its step writes nothing (metadata.json and the
\* temporary files stay as they were), the lock entry of the call is gone
\* and every call that waited for it goes on; afterwards no call waits for
\* the failed call.  (A process that dies during the read raises nothing.)
C34_UpdateNotFound ==
    /\ [][\A c \in Calls : NotFoundCase(c) /\ pc'[c] \notin {pc[c], "crashed"} =>
            /\ pc'[c] = "failed"
            /\ file' = file /\ tmp' = tmp /\ variantDirs' = variantDirs
            /\ activeLocks'[op[c].inst] # c
            /\ \A d \in Calls : awaited[d] = c => pc'[d] = "read"]_vars
    /\ [](\A c \in Calls : pc[c] = "failed" =>
            /\ activeLocks[op[c].inst] # c
            /\ \A d \in Calls : awaited[d] # c)

\* An updateVariant has failed on a record that is there, and a call made
\* later on the same instance has completed.
C34_Witness ==
    \E c, d \in Calls :
        /\ c < d
        /\ op[c].name = "updateVariant" /\ pc[c] = "failed"
        /\ file.exists
        /\ op[d].inst = op[c].inst /\ pc[d] = "done"

\* ------------------------------------------- applyPatchToWorktree: the claims

\* C35: when applyPatchToWorktree has returned or raised, whatever the two
\* apply attempts and the commit did, the temporary patch file is not in the
\* worktree.
C35_PatchFileRemoved ==
    [](ap.pc \in {"returned", "raised"} => ~tree.patchFile)

\* applyPatchToWorktree has raised after both attempts failed on a patch file
\* that had been written, and the file is gone.
C35_Witness ==
    ap.pc = "raised" /\ ap.error = "bothFailed" /\ ~tree.patchFile

\* `git apply` is spawned.
PlainAttempted == ap.pc # "plain" /\ ap'.pc = "plain"

\* The plain apply is attempted only after the 3-way apply has failed.
PlainOnlyAfterThreeWay ==
    [][PlainAttempted => ap.pc = "threeWay" /\ ~ap'.applied
                            /\ ap'.applyError = "3-way merge failed"]_vars

\* The error of two failed attempts tells of both, and by then no commit was
\* made, updateVariant was not called and metadata.json is as it was.
BothFailedLeavesNoTrace ==
    [](ap.error = "bothFailed" =>
            /\ ~ap.applied
            /\ ap.reasons = {"git apply failed", "3-way merge failed"}
            /\ tree.commits = <<>>
            /\ ap.call = NoLock
            /\ file = file0)

\* The errors of the steps other than the two attempts: writeFile, add,
\* status, commit, updateVariant.
OtherStepErrors == {"writeFile", "add", "status", "commit", "updateVariant"}

\* C36, as stated: the plain apply is attempted only after the 3-way apply
\* failed; applyPatchToWorktree raises only when both attempts failed, with
\* an error that carries both reasons, and then no commit was made and the
\* variant's record was not modified.
C36_RaisesOnlyWhenBothFail ==
    /\ PlainOnlyAfterThreeWay
    /\ [](ap.pc = "raised" => ap.error = "bothFailed")
    /\ BothFailedLeavesNoTrace

\* C36, amended: the plain apply is attempted only after the 3-way apply
\* failed; a failed 3-way apply alone does not raise, and the attempts raise
\* only when both failed, with an error that carries both reasons, no commit
\* made and the variant's record not modified; every other raise is the
\* error of writeFile, add, status, commit or updateVariant.
C36_AttemptsRaiseOnlyWhenBothFail ==
    /\ PlainOnlyAfterThreeWay
    /\ [][ap.pc = "threeWay" /\ ap'.pc # "threeWay" =>
            ap'.pc \in {"add", "plain", "crashed"} /\ ap'.error = "none"]_vars
    /\ [][ap.pc = "plain" /\ ap'.pc = "finally" => ap'.error = "bothFailed"]_vars
    /\ [](ap.pc = "raised" => ap.error \in {"bothFailed"} \cup OtherStepErrors)
    /\ BothFailedLeavesNoTrace

\* applyPatchToWorktree has raised the error of two failed attempts on a
\* variant the record holds.
C36_Witness ==
    /\ ap.pc = "raised" /\ ap.error = "bothFailed"
    /\ file.exists /\ FindIndex(file.variants, ap.id) # 0

\* C37: the temporary patch file is never staged and is in no commit
\* applyPatchToWorktree makes.
C37_PatchFileNotCommitted ==
    [](/\ TempPatch \notin tree.staged
       /\ \A k \in 1 .. Len(tree.commits) : TempPatch \notin tree.commits[k])

\* ------------------------------------------------ children and the manager

\* C39: every child process that was spawned and has not exited belongs to a
\* DevServer instance the manager tracks under the instance's key.
C39_LiveChildIsTracked ==
    \A s \in DevServers : Live(s) => servers[srv[s].key] = s

\* The child of instance s calls listen on its port.
ChildBinds(s) == srv[s].bind = "pending" /\ srv'[s].bind # "pending"

\* C38: when the child spawned for a port binds it, the orchestrator does not
\* hold its placeholder listener on that port, and the child gets the port.
C38_PortFreeWhenChildBinds ==
    [][\A s \in DevServers :
        ChildBinds(s) =>
            /\ ~Holds(s)
            /\ resv[s].port \notin listening
            /\ srv'[s].bind = "bound"]_vars

\* ------------------------------------------------- registry: the claims

\* Call c left withLock with the error of mkdir or of lockfile.lock.
AcquireFailed(c) == reg[c].pc = "failed" /\ reg[c].error \in {"mkdir", "lock"}

\* C40: when acquiring the cross-process lock fails in withLock (mkdir fails
\* or the retries of lockfile.lock are exhausted), the in-process lock taken
\* for that call is released: its promise is no longer the map's entry and no
\* call awaits it, so that every later addServer or removeServer that waits
\* for the in-process lock eventually stops waiting.
C40_FailedAcquireReleasesInProc ==
    /\ [](\A c \in RegCalls :
            AcquireFailed(c) =>
                /\ locks # c
                /\ \A d \in RegCalls : ~(reg[d].pc = "waiting" /\ reg[d].awaited = c))
    /\ \A d \in RegCalls : (reg[d].pc = "waiting") ~> (reg[d].pc # "waiting")

====
